---- MODULE Spec2Model ----
(***************************************************************************)
(* A model of pyflap's interactive graph-canvas controller                 *)
(* (src/gtk_editor/gtk_editor.py): the GraphEditorWidget of one tab, the   *)
(* side lists of the GraphEditorWindow that drive its preselection, and    *)
(* the render cache with its two transforms.                               *)
(*                                                                         *)
(* The widget's fields are the VARIABLES.  Every handler of the source is  *)
(* an operator from a state record (one field per variable) and the        *)
(* event's inputs to the state record the handler leaves behind; an action *)
(* applies one handler to the current state.  The handlers run to          *)
(* completion, one event at a time (a single GTK main loop).               *)
(*                                                                         *)
(* Modelling conventions                                                   *)
(*  - Coordinates are integers and the cairo matrices are integer affine   *)
(*    maps <<xx, yx, xy, yy, x0, y0>>.  The environment points at grid     *)
(*    points of the model space (Points); the event carries the device     *)
(*    point pos_to_device of it, and the handlers convert back with        *)
(*    pos_from_device, as the source does.                                 *)
(*  - A vertex is hit when the converted pointer coincides with its        *)
(*    position: the hit radius size/scale is smaller than the grid pitch.  *)
(*  - graph_tool is an external library and is modelled by its documented  *)
(*    behaviour: vertices are indexed 0..N-1 and removing a vertex shifts  *)
(*    the higher indices and the graph's vertex property maps; an edge     *)
(*    keeps its index, a freed edge index is reused by the next add_edge,  *)
(*    and an edge property map keeps the slot of a removed edge.           *)
(*  - A Python exception raised in a handler aborts the handler where it   *)
(*    is raised: the assignments made before it stay (field exc).          *)
(***************************************************************************)
EXTENDS Integers, Sequences, FiniteSets, TLC

(***************************************************************************)
(* Bounds of the model.                                                    *)
(***************************************************************************)
\* at most MaxV vertices and MaxE edges in the graph
MaxV == 2
MaxE == 3
\* the environment points at the grid points (0..MaxCoord) x (0..MaxCoord)
MaxCoord == 1
\* the view is panned at most MaxPan device units away from its first fit
MaxPan == 30
\* a session has at most MaxSteps input events; a session at the canvas
\* alone (mouse and mode buttons) has at most MaxMouseSteps
MaxSteps == 4
MaxMouseSteps == 5
\* a session of moving vertices and panning the view has at most MaxViewSteps
MaxViewSteps == 4
\* a session of picking and scrolling over vertices has at most MaxScrollSteps
MaxScrollSteps == 6
\* merge_parallel_edges is run at most MaxMergeSteps times, on graphs of at
\* most MaxMergeE edges
MaxMergeSteps == 2
\* a session of clicking at vertices with wide hit-discs has at most MaxHitSteps
MaxHitSteps == 4
\* a session of drawing edges and zoom rectangles has at most MaxEdgeSteps
MaxEdgeSteps == 5
\* a session of picking, scrolling and rubber bands has at most MaxBandSteps
MaxBandSteps == 5
\* a session of picking, scrolling and removing has at most MaxRemoveSteps
MaxRemoveSteps == 5
\* a session of panning and drawing has at most MaxCacheSteps input events
MaxCacheSteps == 4
\* a session of scrolling while the cache is painted has at most
\* MaxRedrawSteps input events
MaxRedrawSteps == 1
\* a session of zooming and drawing has at most MaxZoomSteps input events
MaxZoomSteps == 4
\* the wheel zooms in by a whole factor of at most MaxZoom
MaxZoom == 2
\* a session of picking, ticking list rows and rubber bands has at most
\* MaxTickSteps input events
MaxTickSteps == 6
\* input events of a session that ends with closing the tab or the window
MaxCloseSteps == 4
\* a session of dragging a vertex selection has at most MaxDragSteps input
\* events
MaxDragSteps == 6
\* a session of dragging, rubber bands and removing has at most MaxIndexSteps
MaxIndexSteps == 5
\* a session of picking, pointing at list rows and drawing has at most
\* MaxFrameSteps input events
MaxFrameSteps == 4
\* a time-boxed pass of cairo_draw paints at most MaxBudget elements
MaxBudget == 2
MaxMergeE == 3

(***************************************************************************)
(* Program constants.                                                      *)
(***************************************************************************)
\* scroll sensitivity: one scroll step pans the view by 10 device units
ScrollStep == 10
\* the cache surface is 3 times the viewport in each dimension
CacheFactor == 3

\* The grid pitch equals the scroll step, so pans by dragging and by
\* scrolling move the view by the same unit.
Pitch == ScrollStep
Coords == {Pitch * i : i \in 0..MaxCoord}
Points == Coords \X Coords

\* The allocation of the widget (get_allocated_width/height): the viewport
\* holds the grid.
AllocW == Pitch * (MaxCoord + 1)
AllocH == Pitch * (MaxCoord + 1)

(***************************************************************************)
(* Optional values: None, or Some(x).                                      *)
(***************************************************************************)
None == << >>
Some(x) == << x >>
IsNone(o) == o = << >>
Val(o) == o[1]

Min2(a, b) == IF a <= b THEN a ELSE b
Max2(a, b) == IF a >= b THEN a ELSE b
Abs(a) == IF a >= 0 THEN a ELSE 0 - a
SetMin(xs) == CHOOSE a \in xs : \A b \in xs : a <= b
SetMax(xs) == CHOOSE a \in xs : \A b \in xs : a >= b

(***************************************************************************)
(* cairo.Matrix: x' = xx*x + xy*y + x0, y' = yx*x + yy*y + y0.             *)
(***************************************************************************)
Matrix(xx, yx, xy, yy, x0, y0) ==
    [xx |-> xx, yx |-> yx, xy |-> xy, yy |-> yy, x0 |-> x0, y0 |-> y0]

IdentityMatrix == Matrix(1, 0, 0, 1, 0, 0)

\* a * b (Matrix.multiply): first a, then b
Multiply(a, b) ==
    Matrix(a.xx * b.xx + a.yx * b.xy,
           a.xx * b.yx + a.yx * b.yy,
           a.xy * b.xx + a.yy * b.xy,
           a.xy * b.yx + a.yy * b.yy,
           a.x0 * b.xx + a.y0 * b.xy + b.x0,
           a.x0 * b.yx + a.y0 * b.yy + b.y0)

\* m.translate(tx, ty): first translate, then m
Translation(tx, ty) == Matrix(1, 0, 0, 1, tx, ty)
Translate(m, tx, ty) == Multiply(Translation(tx, ty), m)

\* m.scale(sx, sy): first scale, then m
Scaling(sx, sy) == Matrix(sx, 0, 0, sy, 0, 0)
Scale(m, sx, sy) == Multiply(Scaling(sx, sy), m)

\* m.rotate by q quarter turns: first rotate, then m
QuarterTurn(q) ==
    CASE q % 4 = 0 -> Matrix(1, 0, 0, 1, 0, 0)
      [] q % 4 = 1 -> Matrix(0, 1, 0 - 1, 0, 0, 0)
      [] q % 4 = 2 -> Matrix(0 - 1, 0, 0, 0 - 1, 0, 0)
      [] OTHER     -> Matrix(0, 0 - 1, 1, 0, 0, 0)

\* cairo user_to_device
TransformPoint(m, p) ==
    << m.xx * p[1] + m.xy * p[2] + m.x0, m.yx * p[1] + m.yy * p[2] + m.y0 >>

\* cairo user_to_device_distance
TransformDistance(m, p) ==
    << m.xx * p[1] + m.xy * p[2], m.yx * p[1] + m.yy * p[2] >>

Det(m) == m.xx * m.yy - m.xy * m.yx

\* floor division by a divisor of either sign
FloorDiv(a, b) == IF b > 0 THEN a \div b ELSE (0 - a) \div (0 - b)

\* cairo device_to_user_distance (the matrices of the model are invertible;
\* a preimage off the integer grid is rounded down)
InverseDistance(m, d) ==
    << FloorDiv(m.yy * d[1] - m.xy * d[2], Det(m)),
       FloorDiv(m.xx * d[2] - m.yx * d[1], Det(m)) >>

\* cairo device_to_user
InversePoint(m, d) == InverseDistance(m, << d[1] - m.x0, d[2] - m.y0 >>)


(***************************************************************************)
(* The graph (graph_tool.Graph): s.nv vertices 0..nv-1 and the sequence    *)
(* s.edges of edge descriptors [id, src, tgt] in insertion order;          *)
(* s.efree is the queue of freed edge indices.                             *)
(***************************************************************************)
Vertices(s) == 0..(s.nv - 1)
EdgeSet(s) == {s.edges[i] : i \in DOMAIN s.edges}
EdgeIds(s) == {s.edges[i].id : i \in DOMAIN s.edges}
Edge(id, src, tgt) == [id |-> id, src |-> src, tgt |-> tgt]

\* the edge index range: one more than the largest index ever given
EdgeIndexRange(s) == Cardinality(EdgeIds(s)) + Len(s.efree)

\* hit.out_edges() and hit.in_edges(), in the order of the adjacency lists
OutEdges(s, v) == LET T(e) == e.src = v IN SelectSeq(s.edges, T)
InEdges(s, v) == LET T(e) == e.tgt = v IN SelectSeq(s.edges, T)

SeqToSet(seq) == {seq[i] : i \in DOMAIN seq}

\* g.add_vertex(1): the new vertex has index nv and the default value of
\* every property map (a position is given to it by the caller)
add_vertex(s, p) ==
    [s EXCEPT !.nv = s.nv + 1,
              !.pos = [v \in 0..s.nv |-> IF v < s.nv THEN s.pos[v] ELSE p]]

\* g.add_edge(src, tgt): a freed index is reused, else the range grows; the
\* slot of a new index holds the default False in every edge property map
add_edge(s, src, tgt) ==
    IF s.efree # << >>
    THEN [s EXCEPT !.edges = Append(s.edges, Edge(Head(s.efree), src, tgt)),
                   !.efree = Tail(s.efree)]
    ELSE [s EXCEPT !.edges = Append(s.edges, Edge(EdgeIndexRange(s), src, tgt))]

\* g.remove_edge(e): the index is freed, the property slots are kept
remove_edge(s, e) ==
    LET T(x) == x # e
    IN  IF e \in EdgeSet(s)
        THEN [s EXCEPT !.edges = SelectSeq(s.edges, T),
                       !.efree = Append(s.efree, e.id)]
        ELSE [s EXCEPT !.exc = TRUE]

\* the index of a vertex after vertex i has been removed
Shift(i, v) == IF v > i THEN v - 1 ELSE v
ShiftSet(i, vs) == {Shift(i, v) : v \in vs \ {i}}
ShiftOpt(i, o) == IF IsNone(o) THEN o ELSE Some(ShiftSet(i, Val(o)))
ShiftFun(i, f) == [v \in ShiftSet(i, DOMAIN f) |-> IF v >= i THEN f[v + 1] ELSE f[v]]

\* g.remove_vertex(i): the edges of i are removed, the vertices above i move
\* down by one and the vertex property maps of the graph move with them
remove_vertex(s, i) ==
    LET Keep(e) == e.src # i /\ e.tgt # i
        gone == {e \in EdgeSet(s) : ~Keep(e)}
        kept == SelectSeq(s.edges, Keep)
        FreeOf(e) == ~Keep(e)
        freed == SelectSeq(s.edges, FreeOf)
    IN  IF i \notin Vertices(s)
        THEN [s EXCEPT !.exc = TRUE]
        ELSE [s EXCEPT
               !.nv = s.nv - 1,
               !.edges = [k \in DOMAIN kept |->
                            Edge(kept[k].id, Shift(i, kept[k].src), Shift(i, kept[k].tgt))],
               !.efree = s.efree \o [k \in DOMAIN freed |-> freed[k].id],
               !.pos = [v \in 0..(s.nv - 2) |-> IF v >= i THEN s.pos[v + 1] ELSE s.pos[v]],
               !.selected_vertices = ShiftSet(i, s.selected_vertices),
               !.preselected_vertices = ShiftOpt(i, s.preselected_vertices),
               !.highlight = ShiftSet(i, s.highlight),
               !.picked = IF s.picked.t = "VMap"
                          THEN [s.picked EXCEPT !.m = ShiftSet(i, s.picked.m)]
                          ELSE s.picked,
               !.is_moving = IF IsNone(s.is_moving) THEN None
                             ELSE Some([Val(s.is_moving) EXCEPT
                                          !.u = ShiftSet(i, @),
                                          !.saved_pos = ShiftFun(i, @)])]

(***************************************************************************)
(* picked: None, False (set by a touch drag), a Vertex, an Edge, or a      *)
(* PropertyMap of vertices or of edges.  A vertex map is either the        *)
(* selected_vertices object itself (alias) or a copy with members m.       *)
(***************************************************************************)
PickedNone == [t |-> "None"]
PickedFalse == [t |-> "False"]
PickedVertex(v) == [t |-> "Vertex", v |-> v]
PickedEdge(e) == [t |-> "Edge", e |-> e]
PickedSelectedVertices == [t |-> "VMap", alias |-> TRUE, m |-> {}]
PickedVMap(m) == [t |-> "VMap", alias |-> FALSE, m |-> m]
PickedEMap(m) == [t |-> "EMap", m |-> m]

\* isinstance(picked, Vertex) or a PropertyMap with key_type 'v'
IsVertexTyped(p) == p.t \in {"Vertex", "VMap"}
\* isinstance(picked, Edge) or a PropertyMap with key_type 'e'
IsEdgeTyped(p) == p.t \in {"Edge", "EMap"}

(***************************************************************************)
(* Coordinate conversion (pos_to_device, pos_from_device): the window's    *)
(* own position (ox, oy) is the origin.                                    *)
(***************************************************************************)
pos_to_device(s, p) == TransformPoint(Multiply(s.tmatrix, s.smatrix), p)
pos_from_device(s, d) == InversePoint(Multiply(s.tmatrix, s.smatrix), d)

(***************************************************************************)
(* The spatial index (graph_tool VertexMatrix): the set of pairs           *)
(* <<vertex, cell>> filing each vertex under the grid cell of its position.*)
(***************************************************************************)
get_box(p) == << FloorDiv(p[1], Pitch), FloorDiv(p[2], Pitch) >>

VertexMatrix(s) == {<< v, get_box(s.pos[v]) >> : v \in Vertices(s)}

\* the layouts sfdp_layout may return for n vertices: no zero extent
Layout(n, k) ==
    [v \in 0..(n - 1) |->
        << Pitch * (v % (MaxCoord + 1)), Pitch * ((v + k) % (MaxCoord + 1)) >>]

Spread(xs) == SetMax(xs) - SetMin(xs)
Extent(s, c) == Spread({s.pos[v][c] : v \in Vertices(s)})

\* m_res == 0 taken as: the bounding box has no extent at all
DegenerateBoth(s) == Max2(Extent(s, 1), Extent(s, 2)) = 0

\* m_res == 0: the bounding box of the positions has a zero extent
Degenerate(s) == Min2(Extent(s, 1), Extent(s, 2)) = 0

\* init_vertex_matrix: the min() of no positions raises (ValueError)
new_vertex_matrix(s) == [s EXCEPT !.vertex_matrix = Some(VertexMatrix(s))]
init_vertex_matrix(s, env) ==
    IF s.nv = 1 THEN [s EXCEPT !.vertex_matrix = None]
    ELSE IF s.nv = 0 THEN [s EXCEPT !.exc = TRUE]
    ELSE new_vertex_matrix(IF Degenerate(s) THEN [s EXCEPT !.pos = Layout(s.nv, env.lay)]
                           ELSE s)

\* vertex_matrix.add_vertex(v)
vm_add_vertex(s, v) ==
    [s EXCEPT !.vertex_matrix = Some(Val(s.vertex_matrix) \cup {<< v, get_box(s.pos[v]) >>})]

\* vertex_matrix.update_vertex(v, new_pos): set.remove raises (KeyError) when
\* v is not filed under the cell of its position; None has no update_vertex
vm_update_vertex(s, v, new_pos) ==
    IF IsNone(s.vertex_matrix) \/ v \notin Vertices(s) THEN [s EXCEPT !.exc = TRUE]
    ELSE IF << v, get_box(s.pos[v]) >> \notin Val(s.vertex_matrix) THEN [s EXCEPT !.exc = TRUE]
    ELSE [s EXCEPT !.pos[v] = new_pos,
                   !.vertex_matrix =
                       Some((Val(s.vertex_matrix) \ {<< v, get_box(s.pos[v]) >>})
                            \cup {<< v, get_box(new_pos) >>})]

\* ndist = ((pos - self.pos[v]) ** 2).sum()
Dist2(p, q) == (p[1] - q[1]) * (p[1] - q[1]) + (p[2] - q[2]) * (p[2] - q[2])

\* vprops["size"]; no vertex is hit before a size is given
HitSize(s) == IF IsNone(s.size) THEN 0 ELSE Val(s.size)

\* ndist * 3 < (size(v) / self.scale) ** 2, for scale > 0
InDisc(s, v, pos) ==
    3 * Dist2(pos, s.pos[v]) * s.scale * s.scale < HitSize(s) * HitSize(s)

\* the place of a cell in the loops over i and j around the cell box
ScanRank(cell, box) == 3 * (cell[1] - box[1]) + (cell[2] - box[2])

\* the cells of the 3x3 block around box that hold a vertex whose disc
\* contains pos
HitCells(s, pos, box) ==
    {c \in Val(s.vertex_matrix) :
        /\ c[1] \in Vertices(s)
        /\ Abs(c[2][1] - box[1]) <= 1
        /\ Abs(c[2][2] - box[2]) <= 1
        /\ InDisc(s, c[1], pos)}

\* the vertices the hit-test loop can return at pos: those of the first cell
\* of the 3x3 block, in the order of the loops, that holds a vertex whose
\* disc contains pos
HitCandidates(s, pos) ==
    LET box == get_box(pos)
        cells == HitCells(s, pos, box)
    IN  {c[1] : c \in {x \in cells :
                         \A y \in cells : ScanRank(x[2], box) <= ScanRank(y[2], box)}}

\* the vertex returned by is_hit on the state left by is_hit_state: the first
\* vertex of the loop over the cell sets, whose order is not specified
FirstOf(c, tie) ==
    IF c = {} THEN None ELSE IF tie = "lo" THEN Some(SetMin(c)) ELSE Some(SetMax(c))
is_hit_result(s, pos, env) ==
    IF s.nv = 0 THEN None
    ELSE IF s.nv = 1 THEN (IF InDisc(s, 0, pos) THEN Some(0) ELSE None)
    ELSE FirstOf(HitCandidates(s, pos), env.tie)

\* the state is_hit leaves: the spatial index is built on first use
is_hit_state(s, env) ==
    IF s.nv >= 2 /\ IsNone(s.vertex_matrix) THEN init_vertex_matrix(s, env) ELSE s


(***************************************************************************)
(* The side lists of the window.  vrows/erows are the rows of the vertex   *)
(* and edge stores, vchk/echk the rows whose checkbox column is set; a     *)
(* tree view shows the vertex filter ("v"), the edge filter ("e"), no      *)
(* model ("None") or a filter of stores that have been replaced since      *)
(* ("old").  A filter shows the rows of the elements marked selected.      *)
(***************************************************************************)
\* _vertex_from_cell: None for an index that is no vertex of the graph
ValidVertexRows(s) == s.vrows \cap Vertices(s)
\* _edge_from_cell: the edge between the row's endpoints with the row's index
ValidEdgeRows(s) == s.erows \cap EdgeSet(s)

\* rows shown by selected_vertices_filter / selected_edges_filter
VisibleVertexRows(s) == {i \in ValidVertexRows(s) : i \in s.selected_vertices}
VisibleEdgeRows(s) == {e \in ValidEdgeRows(s) : e.id \in s.selected_edges}

\* all(row[1] for row in filter)
AllChecked(s, kind) ==
    IF kind = "v" THEN VisibleVertexRows(s) \subseteq s.vchk
    ELSE \A e \in VisibleEdgeRows(s) : e.id \in s.echk

\* picked_change_event, first loop: rows of vertices not preselected are
\* unchecked; a row of no vertex raises when a preselection map is indexed
StaleVertexRow(s) == ~IsNone(s.preselected_vertices) /\ s.vrows \ Vertices(s) # {}
uncheck_vertex_rows(s) ==
    [s EXCEPT !.vchk = IF IsNone(s.preselected_vertices) THEN {}
                       ELSE {i \in @ : i \notin Vertices(s)
                                       \/ i \in Val(s.preselected_vertices)}]

\* picked_change_event, second loop: the same for the edge rows
StaleEdgeRow(s) == ~IsNone(s.preselected_edges) /\ s.erows \ EdgeSet(s) # {}
uncheck_edge_rows(s) ==
    [s EXCEPT !.echk = IF IsNone(s.preselected_edges) THEN {}
                       ELSE {i \in @ : (\A e \in ValidEdgeRows(s) : e.id # i)
                                       \/ i \in Val(s.preselected_edges)}]

\* picked_change_event, the models of the two views by the type of picked
set_view_models(s) ==
    IF IsVertexTyped(s.picked)
    THEN [s EXCEPT !.selected_view = "v", !.connected_view = "e"]
    ELSE IF IsEdgeTyped(s.picked)
    THEN [s EXCEPT !.selected_view = "e", !.connected_view = "v"]
    ELSE s

\* picked_change_event, the two select-all check buttons.  set_active emits
\* clicked when it changes the button: the clicked handler then finds itself
\* disallowed and allows the next click
sync_check_buttons(s, all_select_set, all_remove_set) ==
    [s EXCEPT
      !.select_all_select = all_select_set,
      !.allow_select_all_select = IF all_select_set # s.select_all_select THEN TRUE ELSE @,
      !.select_all_remove = IF all_remove_set # @ THEN FALSE ELSE @,
      !.allow_select_all_remove =
          IF all_remove_set # s.select_all_remove THEN s.select_all_remove ELSE @]

check_buttons(s) ==
    IF IsVertexTyped(s.picked)
    THEN sync_check_buttons(s, AllChecked(s, "e"), AllChecked(s, "v"))
    ELSE IF IsEdgeTyped(s.picked)
    THEN sync_check_buttons(s, AllChecked(s, "v"), AllChecked(s, "e"))
    ELSE s

\* picked_change_event (the window's handler of picked-changed)
picked_change_event(s) ==
    IF s.picked.t = "None"
    THEN [s EXCEPT !.selected_view = "None", !.connected_view = "None"]
    ELSE IF StaleVertexRow(s)
    THEN [uncheck_vertex_rows(s) EXCEPT !.werr = TRUE]
    ELSE IF StaleEdgeRow(s)
    THEN [uncheck_edge_rows(uncheck_vertex_rows(s)) EXCEPT !.werr = TRUE]
    ELSE check_buttons(set_view_models(uncheck_edge_rows(uncheck_vertex_rows(s))))

\* page_changed_event: new stores and new filters, then picked_change_event
OldView(view) == IF view = "None" THEN "None" ELSE "old"
page_changed_event(s) ==
    picked_change_event(
      [s EXCEPT !.vrows = Vertices(s),
                !.vchk = IF IsNone(s.preselected_vertices) THEN {}
                         ELSE Val(s.preselected_vertices) \cap Vertices(s),
                !.erows = EdgeSet(s),
                !.echk = IF IsNone(s.preselected_edges) THEN {}
                         ELSE Val(s.preselected_edges) \cap EdgeIds(s),
                !.selected_view = OldView(@),
                !.connected_view = OldView(@)])

\* graph_changed_event (the window's handler of graph-changed)
graph_changed_event(s, state) == IF state THEN page_changed_event(s) ELSE s

\* a variant: the edges with both endpoints marked
EndpointMarkedBoth(s) ==
    {e.id : e \in {x \in EdgeSet(s) : x.src \in s.selected_vertices
                                       /\ x.tgt \in s.selected_vertices}}

(***************************************************************************)
(* The widget's own signal handlers.                                       *)
(***************************************************************************)
\* edges with the source or the target marked: logical_or(hsrc.fa, htgt.fa)
EndpointMarked(s) ==
    {e.id : e \in {x \in EdgeSet(s) : x.src \in s.selected_vertices
                                       \/ x.tgt \in s.selected_vertices}}

\* the endpoints of the edges of GraphView(g, efilt=selected_edges)
EndpointsOfSelected(s) ==
    UNION {{e.src, e.tgt} : e \in {x \in EdgeSet(s) : x.id \in s.selected_edges}}

\* prop.fa = logical_and(selected.fa, prop.fa) on an optional map
AndOpt(o, sel, live) ==
    IF IsNone(o) THEN o ELSE Some((Val(o) \ live) \cup (Val(o) \cap sel \cap live))

\* do_picked_changed, picked given: the other kind follows the picked kind
close_selection(s) ==
    IF IsVertexTyped(s.picked)
    THEN [s EXCEPT !.selected_edges = (@ \ EdgeIds(s)) \cup EndpointMarked(s)]
    ELSE IF IsEdgeTyped(s.picked)
    THEN [s EXCEPT !.selected_vertices = EndpointsOfSelected(s)]
    ELSE s

\* do_picked_changed, picked given: preselection is cut down to the selection
cut_preselection(s) ==
    [s EXCEPT !.preselected_vertices = AndOpt(@, s.selected_vertices, Vertices(s)),
              !.preselected_edges = AndOpt(@, s.selected_edges, EdgeIds(s))]

\* do_picked_changed: an array assignment writes the slots of the elements
\* of the graph only
do_picked_changed(s) ==
    IF s.picked.t # "None"
    THEN cut_preselection(close_selection(s))
    ELSE [s EXCEPT !.selected_vertices = {},
                   !.selected_edges = @ \ EdgeIds(s),
                   !.preselected_vertices = None,
                   !.preselected_edges = None]

\* emit("picked-changed"): the class handler first, then the window's
emit_picked_changed(s) ==
    picked_change_event(do_picked_changed([s EXCEPT !.sig = Append(@, "picked-changed")]))

\* a variant: a pass starts at the first element whatever the offset is, and
\* ends where the pass before it ended
cairo_draw_stalled(s, complete, env) ==
    IF complete \/ env.budget >= s.nv + Len(s.edges) THEN 0
    ELSE env.budget

\* the offset cairo_draw returns: 0 when every element is painted, else the
\* number painted when the time budget (env.budget elements) ran out
cairo_draw(s, complete, env) ==
    IF complete \/ s.regenerate_offset + env.budget >= s.nv + Len(s.edges) THEN 0
    ELSE s.regenerate_offset + env.budget

\* a variant: the painting leaves the deferred-reset flag as it is
paint_base_flag_kept(s, complete, env) ==
    [s EXCEPT !.regenerate_offset = cairo_draw(s, complete, env),
              !.paints = @ + 1]

\* a variant: smatrix is dropped, not folded into tmatrix
new_base_unfolded(s) ==
    [s EXCEPT !.base_geometry = Some(<< AllocW * CacheFactor, AllocH * CacheFactor >>),
              !.regenerate_offset = 0,
              !.tmatrix = Multiply(s.tmatrix, Translation(AllocW, AllocH)),
              !.smatrix = Translation(0 - AllocW, 0 - AllocH),
              !.resets = @ + 1]

\* a variant: the surface is shifted the other way
new_base_shifted_back(s) ==
    [s EXCEPT !.base_geometry = Some(<< AllocW * CacheFactor, AllocH * CacheFactor >>),
              !.regenerate_offset = 0,
              !.tmatrix = Multiply(s.tmatrix,
                                   Multiply(s.smatrix, Translation(AllocW, AllocH))),
              !.smatrix = Translation(AllocW, AllocH),
              !.resets = @ + 1]

\* regenerate_surface, a new base surface: smatrix is folded into tmatrix and
\* becomes the translation that centres the viewport in the surface
new_base(s) ==
    [s EXCEPT !.base_geometry = Some(<< AllocW * CacheFactor, AllocH * CacheFactor >>),
              !.regenerate_offset = 0,
              !.tmatrix = Multiply(s.tmatrix,
                                   Multiply(s.smatrix, Translation(AllocW, AllocH))),
              !.smatrix = Translation(0 - AllocW, 0 - AllocH),
              !.resets = @ + 1]

\* regenerate_surface, the painting
paint_base(s, complete, env) ==
    [s EXCEPT !.regenerate_offset = cairo_draw(s, complete, env),
              !.lazy_regenerate = FALSE,
              !.paints = @ + 1]

\* regenerate_surface after its first statement
renew_base(s, reset, complete, env) ==
    IF IsNone(s.base_geometry)
       \/ Val(s.base_geometry) # << AllocW * CacheFactor, AllocH * CacheFactor >>
       \/ reset
    THEN (IF s.realized THEN paint_base(new_base(s), complete, env) ELSE s)
    ELSE paint_base(s, complete, env)

\* regenerate_surface
regenerate_surface(s, reset, complete, env) ==
    renew_base(IF reset THEN [s EXCEPT !.regenerate_offset = 0] ELSE s,
               reset, complete, env)

\* fit_to_window: fit_to_view (graph_tool) gives the offset and the zoom
fit_to_window(s, env) ==
    [s EXCEPT !.scale = @ * env.fit_zoom,
              !.tmatrix = Multiply(Multiply(s.tmatrix, s.smatrix),
                                   Scale(Translation(env.fit_offset[1], env.fit_offset[2]),
                                         env.fit_zoom, env.fit_zoom)),
              !.smatrix = IdentityMatrix]

\* do_graph_changed
do_graph_changed(s, to, env) ==
    IF to THEN regenerate_surface([s EXCEPT !.changed = to], TRUE, TRUE, env)
    ELSE [s EXCEPT !.changed = to]

\* emit("graph-changed", to)
emit_graph_changed(s, to, env) ==
    graph_changed_event(
        do_graph_changed([s EXCEPT !.sig = Append(@, IF to THEN "graph-changed(True)"
                                                      ELSE "graph-changed(False)")],
                         to, env),
        to)

(***************************************************************************)
(* Mouse handlers of the widget.  An event carries the device point d, the *)
(* button and the modifier state.  A handler is a chain of steps, each an  *)
(* operator on the state the step before it left.                          *)
(***************************************************************************)
\* picked after a change of the vertex selection: the map itself when more
\* than one vertex is marked, else the only marked vertex, else None
PickOf(sel) ==
    IF Cardinality(sel) > 1 THEN PickedSelectedVertices
    ELSE IF sel = {} THEN PickedNone
    ELSE PickedVertex(CHOOSE v \in sel : TRUE)
PickFromSelection(s) == PickOf(s.selected_vertices \cap Vertices(s))
repick(s) == [s EXCEPT !.picked = PickFromSelection(s)]

\* the vertices of the view u kept in is_moving: GraphView(g, vfilt=...) is a
\* live view of the map object that was selected_vertices at the press
MovingVertices(s) ==
    IF Val(s.is_moving).live THEN s.selected_vertices \cap Vertices(s)
    ELSE Val(s.is_moving).u \cap Vertices(s)

Rect(d) == Some(<< d[1], d[2], d[1], d[2] >>)

\* a vertex selection made through an edge pick is dropped first
clear_if_edge_picked(s) ==
    IF IsEdgeTyped(s.picked) THEN [s EXCEPT !.selected_vertices = {}] ELSE s

\* a variant: a shift-click only ever adds the vertex
toggle_vertex_adding(s, h) ==
    [s EXCEPT !.selected_vertices = @ \cup {h}]

\* shift-click on vertex h: its mark is toggled
toggle_vertex(s, h) ==
    [s EXCEPT
      !.preselected_vertices =
          IF h \in s.selected_vertices /\ ~IsNone(@) THEN Some(Val(@) \ {h}) ELSE @,
      !.selected_vertices = IF h \in @ THEN @ \ {h} ELSE @ \cup {h}]

toggle_hit(s, hit) ==
    IF IsNone(hit) THEN s
    ELSE emit_picked_changed(repick(toggle_vertex(clear_if_edge_picked(s), Val(hit))))

start_srect(s) == [s EXCEPT !.srect = Rect(s.pointer)]

\* button 1 with SHIFT: toggle the vertex under the pointer, start a rubber band
shift_toggle(s, env) ==
    start_srect(toggle_hit(s, is_hit_result(s, pos_from_device(s, s.pointer), env)))
press_shift(s, env) == shift_toggle(is_hit_state(s, env), env)

\* the whole part of a square root
ISqrt(n) == CHOOSE r \in 0..n : r * r <= n /\ n < (r + 1) * (r + 1)

\* adjust_default_sizes: size = sqrt(area / max(n, 1)) / 3.5, when no size
\* is given yet or when forced
adjust_default_sizes(s, force) ==
    IF IsNone(s.size) \/ force
    THEN [s EXCEPT !.size = Some((2 * ISqrt((AllocW * AllocH) \div Max2(s.nv, 1))) \div 7)]
    ELSE s

\* place node: the new vertex is filed in the spatial index if there is one
file_new_vertex(s) ==
    IF IsNone(s.vertex_matrix) THEN s ELSE vm_add_vertex(s, s.nv - 1)
\* a variant: the new vertex is left at the default position
place_vertex_unplaced(s, env) ==
    emit_graph_changed(
        adjust_default_sizes(file_new_vertex(add_vertex(s, << 0, 0 >>)), TRUE),
        TRUE, env)

place_vertex(s, env) ==
    emit_graph_changed(
        adjust_default_sizes(
            file_new_vertex(add_vertex(s, pos_from_device(s, s.pointer))), TRUE),
        TRUE, env)

start_pan(s) == [s EXCEPT !.drag_vector = Some(s.pointer), !.is_panning = TRUE]

start_edge(s, h) == [s EXCEPT !.new_edge = Some(<< h, pos_from_device(s, s.pointer) >>)]

\* the vertex under the pointer becomes the selection unless it is part of a
\* vertex selection already
pick_for_move(s, h) ==
    IF s.picked.t = "None" \/ IsEdgeTyped(s.picked) \/ h \notin s.selected_vertices
    THEN emit_picked_changed([s EXCEPT !.selected_vertices = {h},
                                       !.picked = PickedVertex(h),
                                       !.preselected_vertices = None])
    ELSE s

start_move(s) ==
    [s EXCEPT !.drag_vector = Some(s.pointer),
              !.is_moving = Some([live |-> TRUE, u |-> {}, saved_pos |-> s.pos,
                                  is_new |-> s.edit_mode = "place_node"])]

press_on(s, hit) ==
    IF IsNone(hit) THEN start_pan(s)
    ELSE IF s.edit_mode = "place_edge" THEN start_edge(s, Val(hit))
    ELSE start_move(pick_for_move(s, Val(hit)))

press_hit(s, env) == press_on(s, is_hit_result(s, pos_from_device(s, s.pointer), env))

\* button 1 without modifiers: place a vertex, start an edge, a move or a pan
press_plain(s, env) ==
    IF s.edit_mode = "place_node" THEN press_on(place_vertex(s, env), Some(s.nv))
    ELSE press_hit(is_hit_state(s, env), env)

\* for v in u.vertices(): vertex_matrix.update_vertex(g.vertex(int(v)), saved_pos[v])
RECURSIVE RestoreAll(_, _, _)
RestoreAll(s, vs, saved_pos) ==
    IF vs = {} \/ s.exc THEN s
    ELSE RestoreAll(IF SetMin(vs) \in DOMAIN saved_pos
                    THEN vm_update_vertex(s, SetMin(vs), saved_pos[SetMin(vs)])
                    ELSE [s EXCEPT !.exc = TRUE],
                    vs \ {SetMin(vs)}, saved_pos)

\* for v in u.vertices(): g.remove_vertex(v)
RECURSIVE RemoveAll(_, _)
RemoveAll(s, vs) ==
    IF vs = {} \/ s.exc THEN s
    ELSE RemoveAll(remove_vertex(s, SetMax(vs)), vs \ {SetMax(vs)})

graph_changed_unless_raised(s, env) ==
    IF s.exc THEN s ELSE emit_graph_changed(s, TRUE, env)
reinit_unless_raised(s, env) ==
    IF s.exc THEN s ELSE graph_changed_unless_raised(init_vertex_matrix(s, env), env)

\* button 3 during a move: the new vertex is removed, or the saved positions
\* are put back
undo_move(s, env) ==
    IF Val(s.is_moving).is_new
    THEN reinit_unless_raised(RemoveAll(s, MovingVertices(s)), env)
    ELSE RestoreAll(s, MovingVertices(s), Val(s.is_moving).saved_pos)

end_move(s) ==
    IF s.exc THEN s
    ELSE emit_picked_changed([s EXCEPT !.is_moving = None,
                                       !.moved_picked = FALSE,
                                       !.picked = PickedNone])

\* button 3, first statement: undo the move in progress
cancel_move(s, env) == end_move(undo_move([s EXCEPT !.drag_vector = None], env))

\* button 3, second statement: the if/elif chain
cancel_chain(s) ==
    IF s.exc THEN s
    ELSE IF ~IsNone(s.srect) THEN [s EXCEPT !.srect = None]
    ELSE IF ~IsNone(s.zrect) THEN [s EXCEPT !.zrect = None]
    ELSE IF ~IsNone(s.new_edge) THEN [s EXCEPT !.new_edge = None]
    ELSE [emit_picked_changed([s EXCEPT !.picked = PickedNone,
                                        !.preselected_vertices = None])
            EXCEPT !.selected_vertices = {}]

press_cancel(s, env) ==
    cancel_chain(IF IsNone(s.is_moving) THEN s ELSE cancel_move(s, env))

GestureActive(s) == s.is_zooming \/ s.is_rotating \/ s.is_drag_gesture

\* button_press_event after the pointer is stored
press_at(s, button, shift, ctrl, env) ==
    IF button = 1 /\ ~ctrl
    THEN (IF shift THEN press_shift(s, env) ELSE press_plain(s, env))
    ELSE IF button = 1 THEN [s EXCEPT !.zrect = Rect(s.pointer)]
    ELSE IF button = 3 THEN press_cancel(s, env)
    ELSE s

button_press_event(s, d, button, shift, ctrl, env) ==
    IF s.nv = 0 /\ s.edit_mode # "place_node" THEN s
    ELSE IF GestureActive(s) THEN s
    ELSE press_at([s EXCEPT !.pointer = d], button, shift, ctrl, env)

\* the zoom of a zoom rectangle z: min(W / dx or 1, H / dy or 1)
ZoomAxis(extent, d) == IF d # 0 THEN extent \div d ELSE 1
ZoomOf(z) == Min2(ZoomAxis(AllocW, Abs(z[3] - z[1])), ZoomAxis(AllocH, Abs(z[4] - z[2])))

\* the zoom is a whole number (the model has no fractions)
ZoomExact(z) ==
    /\ z[3] # z[1] => AllocW % Abs(z[3] - z[1]) = 0
    /\ z[4] # z[2] => AllocH % Abs(z[4] - z[2]) = 0

RectCenter(z) == << (z[1] + z[3]) \div 2, (z[2] + z[4]) \div 2 >>

\* release over a zoom rectangle: the centre cpos of the rectangle is moved
\* to the centre tpos of the widget
recentre_by(s, cpos, tpos) ==
    [s EXCEPT
      !.tmatrix = Translate(@, tpos[1] - (cpos[1] + FloorDiv(cpos[1], s.scale)),
                               tpos[2] - (cpos[2] + FloorDiv(cpos[2], s.scale))),
      !.lazy_regenerate = TRUE,
      !.zrect = None]
recentre(s, cpos) ==
    recentre_by(s, cpos, pos_from_device(s, << AllocW \div 2, AllocH \div 2 >>))
zoom_to(s, zoom, cpos) ==
    recentre([s EXCEPT !.scale = @ * zoom,
                       !.tmatrix = Multiply(@, Scaling(zoom, zoom))],
             cpos)
release_zrect(s) ==
    zoom_to(s, ZoomOf(Val(s.zrect)), pos_from_device(s, RectCenter(Val(s.zrect))))

\* vertex_matrix.mark_polygon(poly, selected_vertices): the vertices filed in
\* the cells the rectangle lo..hi spans that lie inside it; the ray casting
\* decides about a vertex on the border, and nothing is inside a rectangle
\* without area
FiledIn(s, v, b1, b2) ==
    \E c \in Val(s.vertex_matrix) :
       /\ c[1] = v
       /\ b1[1] <= c[2][1] /\ c[2][1] <= b2[1]
       /\ b1[2] <= c[2][2] /\ c[2][2] <= b2[2]
Inner(q, lo, hi) == lo[1] < q[1] /\ q[1] < hi[1] /\ lo[2] < q[2] /\ q[2] < hi[2]
Within(q, lo, hi) == lo[1] <= q[1] /\ q[1] <= hi[1] /\ lo[2] <= q[2] /\ q[2] <= hi[2]
MarkedIn(s, lo, hi, border) ==
    {v \in Vertices(s) :
        /\ FiledIn(s, v, get_box(lo), get_box(hi))
        /\ lo[1] < hi[1] /\ lo[2] < hi[2]
        /\ Inner(s.pos[v], lo, hi) \/ (border /\ Within(s.pos[v], lo, hi))}
MarkedBetween(s, p1, p2, border) ==
    MarkedIn(s, << Min2(p1[1], p2[1]), Min2(p1[2], p2[2]) >>,
                << Max2(p1[1], p2[1]), Max2(p1[2], p2[2]) >>, border)
MarkPolygon(s, env) ==
    MarkedBetween(s, pos_from_device(s, << Val(s.srect)[1], Val(s.srect)[2] >>),
                     pos_from_device(s, << Val(s.srect)[3], Val(s.srect)[4] >>),
                  env.border)

\* release over a rubber band: picked-changed only if the count changed
band_marked(s, before) ==
    [(IF before # Cardinality(s.selected_vertices \cap Vertices(s))
      THEN emit_picked_changed(repick(s)) ELSE repick(s))
        EXCEPT !.srect = None]
mark_band(s, env) ==
    IF IsNone(s.vertex_matrix) THEN [s EXCEPT !.exc = TRUE]
    ELSE band_marked([s EXCEPT !.selected_vertices = @ \cup MarkPolygon(s, env)],
                     Cardinality(s.selected_vertices \cap Vertices(s)))
release_srect(s, env) == mark_band(clear_if_edge_picked(s), env)

\* release over an edge being drawn: the edge is added if a vertex is hit
join(s, hit) ==
    IF IsNone(hit) THEN s
    ELSE IF Val(s.new_edge)[1] \notin Vertices(s) THEN [s EXCEPT !.exc = TRUE]
    ELSE add_edge(s, Val(s.new_edge)[1], Val(hit))
end_edge(s) == IF s.exc THEN s ELSE [s EXCEPT !.new_edge = None]
join_at(s, d, env) ==
    end_edge(graph_changed_unless_raised(
               join(s, is_hit_result(s, pos_from_device(s, d), env)), env))
release_new_edge(s, d, env) == join_at(is_hit_state(s, env), d, env)

end_release(s) ==
    IF s.exc THEN s ELSE [s EXCEPT !.is_moving = None, !.is_panning = FALSE]

button_release_event(s, d, button, env) ==
    IF s.nv = 0 THEN s
    ELSE IF GestureActive(s) THEN s
    ELSE IF button # 1 THEN s
    ELSE end_release(
           IF ~IsNone(s.zrect) THEN release_zrect(s)
           ELSE IF ~IsNone(s.srect) THEN release_srect(s, env)
           ELSE IF ~IsNone(s.new_edge) THEN release_new_edge(s, d, env)
           ELSE IF s.moved_picked
           THEN emit_graph_changed([s EXCEPT !.drag_vector = None,
                                             !.moved_picked = FALSE],
                                   TRUE, env)
           ELSE s)

\* a variant: only the first vertex of the selection follows the pointer
MoveAll_first(s, vs, delta) ==
    IF vs = {} \/ s.exc THEN s
    ELSE vm_update_vertex(s, SetMin(vs),
                          << s.pos[SetMin(vs)][1] + delta[1],
                             s.pos[SetMin(vs)][2] + delta[2] >>)

\* for v in u.vertices(): vertex_matrix.update_vertex(g.vertex(int(v)), pos[v] + delta)
RECURSIVE MoveAll(_, _, _)
MoveAll(s, vs, delta) ==
    IF vs = {} \/ s.exc THEN s
    ELSE MoveAll(vm_update_vertex(s, SetMin(vs),
                                  << s.pos[SetMin(vs)][1] + delta[1],
                                     s.pos[SetMin(vs)][2] + delta[2] >>),
                 vs \ {SetMin(vs)}, delta)

Minus(p, c) == << p[1] - c[1], p[2] - c[2] >>

\* a move in progress follows the pointer p: a vertex map moves by the step
\* from the last pointer, a single vertex moves onto p
drag_picked(s, p) ==
    IF s.picked.t = "VMap"
    THEN (IF IsNone(s.drag_vector) THEN [s EXCEPT !.exc = TRUE]
          ELSE MoveAll(s, s.selected_vertices \cap Vertices(s),
                       Minus(p, pos_from_device(s, Val(s.drag_vector)))))
    ELSE IF s.picked.t = "Vertex"
    THEN (IF ~IsNone(s.vertex_matrix) THEN vm_update_vertex(s, s.picked.v, p)
          ELSE IF s.picked.v \in Vertices(s) THEN [s EXCEPT !.pos[s.picked.v] = p]
          ELSE [s EXCEPT !.exc = TRUE])
    ELSE s
moved(s) ==
    IF s.exc THEN s
    ELSE [s EXCEPT !.drag_vector = Some(s.pointer), !.moved_picked = TRUE]
motion_move(s) == moved(drag_picked(s, pos_from_device(s, s.pointer)))

DragTo(r, d) == Some(<< Val(r)[1], Val(r)[2], d[1], d[2] >>)

motion_pan(s) ==
    IF IsNone(s.drag_vector) THEN [s EXCEPT !.exc = TRUE]
    ELSE [s EXCEPT
           !.smatrix = Multiply(@, Translation(s.pointer[1] - Val(s.drag_vector)[1],
                                               s.pointer[2] - Val(s.drag_vector)[2])),
           !.drag_vector = Some(s.pointer)]

\* motion_notify_event after the pointer is stored
motion_at(s, button1, shift, ctrl) ==
    IF ~button1 THEN s
    ELSE IF ctrl /\ ~IsNone(s.zrect) THEN [s EXCEPT !.zrect = DragTo(@, s.pointer)]
    ELSE IF shift /\ ~IsNone(s.srect) THEN [s EXCEPT !.srect = DragTo(@, s.pointer)]
    ELSE IF ~IsNone(s.new_edge)
    THEN [s EXCEPT !.new_edge = Some(<< Val(@)[1], pos_from_device(s, s.pointer) >>)]
    ELSE IF ~IsNone(s.is_moving) /\ s.picked.t # "None" /\ s.drag_vector # Some(s.pointer)
    THEN motion_move(s)
    ELSE IF s.is_panning THEN motion_pan(s)
    ELSE s

motion_notify_event(s, d, button1, shift, ctrl) ==
    IF s.is_zooming \/ s.is_rotating THEN s
    ELSE motion_at([s EXCEPT !.pointer = d], button1, shift, ctrl)

\* list(hit.out_edges()) + [e for e in hit.in_edges() if e not in pool]
HitEdgePool(s, v) ==
    LET NotOut(e) == e.src # v
    IN  OutEdges(s, v) \o SelectSeq(InEdges(s, v), NotOut)

IndexOf(seq, x) == CHOOSE i \in DOMAIN seq : seq[i] = x

\* a variant: with no edge of the pool picked, a forward scroll starts at
\* the last edge
CycleIndexFromLast(picked, pool, step) ==
    IF picked.t = "Edge" /\ picked.e \in SeqToSet(pool)
    THEN ((IndexOf(pool, picked.e) - 1 + step + Len(pool)) % Len(pool)) + 1
    ELSE IF step > 0 THEN Len(pool) ELSE 1

\* a variant: the position stops at the ends of the pool
CycleIndex_clamped(picked, pool, step) ==
    IF picked.t = "Edge" /\ picked.e \in SeqToSet(pool)
    THEN Max2(1, Min2(Len(pool), IndexOf(pool, picked.e) + step))
    ELSE IF step > 0 THEN 1 ELSE Len(pool)

\* scroll over a vertex: the next (dy > 0) or previous edge of the pool, by
\* the 1-based position ((i - 1 + step + n) % n) + 1
CycleIndex(picked, pool, step) ==
    IF picked.t = "Edge" /\ picked.e \in SeqToSet(pool)
    THEN ((IndexOf(pool, picked.e) - 1 + step + Len(pool)) % Len(pool)) + 1
    ELSE IF step > 0 THEN 1 ELSE Len(pool)
CycleEdge(s, pool, dy) == pool[CycleIndex(s.picked, pool, IF dy > 0 THEN 1 ELSE 0 - 1)]

pick_edge(s, e) ==
    emit_picked_changed([s EXCEPT !.selected_vertices = {},
                                  !.selected_edges = (@ \ EdgeIds(s)) \cup {e.id},
                                  !.preselected_vertices = None,
                                  !.picked = PickedEdge(e)])
cycle(s, pool, dy) == IF Len(pool) > 0 THEN pick_edge(s, CycleEdge(s, pool, dy)) ELSE s

scroll_pan(s, dx, dy) == [s EXCEPT !.smatrix = Multiply(@, Translation(dx, dy))]

scroll_hit(s, hit, dy) ==
    IF /\ ~IsNone(hit)
       /\ s.picked.t # "None"
       /\ (Val(hit) \in s.highlight \/ Val(hit) \in s.selected_vertices)
    THEN cycle(s, HitEdgePool(s, Val(hit)), dy)
    ELSE scroll_pan(s, 0, dy * (0 - ScrollStep))
scroll_over(s, dy, env) ==
    scroll_hit(s, is_hit_result(s, pos_from_device(s, s.pointer), env), dy)

\* scroll_event after the pointer is stored
scroll_at(s, dy, shift, env) ==
    IF dy = 0 THEN s
    ELSE IF shift THEN scroll_pan(s, dy * (0 - ScrollStep), 0)
    ELSE scroll_over(is_hit_state(s, env), dy, env)

\* scroll_event without CONTROL; a plain wheel event has dy = 1, a smooth one
\* carries its own dy and is dropped when dy = 0.  (With CONTROL the handler
\* zooms by 10/9 or 9/10 about the pointer, outside the integer transforms.)
scroll_event(s, d, dy, shift, env) ==
    IF s.is_zooming \/ s.is_rotating THEN s
    ELSE scroll_at([s EXCEPT !.pointer = d], dy, shift, env)

\* scroll_event with CONTROL: the view is scaled by zoom and moved so that
\* the point under the pointer stays where it is.  A smooth event upward with
\* dy = 9 * (zoom - 1) zooms by the whole number zoom.
zoom_scaled(s, zoom) ==
    [s EXCEPT !.scale = @ * zoom, !.tmatrix = Multiply(@, Scaling(zoom, zoom))]
keep_centred(s, cpos, ncpos) ==
    [s EXCEPT !.tmatrix = Translate(@, ncpos[1] - cpos[1], ncpos[2] - cpos[2]),
              !.lazy_regenerate = TRUE]
zoom_about(s, zoom) ==
    keep_centred(zoom_scaled(s, zoom), pos_from_device(s, s.pointer),
                 pos_from_device(zoom_scaled(s, zoom), s.pointer))
scroll_zoom_event(s, d, zoom) ==
    IF s.is_zooming \/ s.is_rotating THEN s
    ELSE zoom_about([s EXCEPT !.pointer = d], zoom)

\* key_press_event, Shift and Ctrl: the far corner of the rectangle is
\* dragged to the pointer
key_rect(s, key) ==
    IF ~IsNone(s.srect)
    THEN (IF key = "Shift" THEN [s EXCEPT !.srect = DragTo(@, s.pointer)] ELSE s)
    ELSE IF IsNone(s.is_moving) /\ key = "Ctrl" /\ ~IsNone(s.zrect)
    THEN [s EXCEPT !.zrect = DragTo(@, s.pointer)]
    ELSE s

\* key_press_event: 'z' fits the selected vertices to the window
key_press_event(s, key, env) ==
    IF s.is_zooming \/ s.is_rotating THEN s
    ELSE key_rect(IF key = "z"
                  THEN regenerate_surface(fit_to_window(s, env), TRUE, FALSE, env)
                  ELSE s,
                  key)

(***************************************************************************)
(* Touch gestures.                                                         *)
(***************************************************************************)
zoom_begin(s) == [s EXCEPT !.is_zooming = TRUE]

zoom_end(s, env) == regenerate_surface([s EXCEPT !.is_zooming = FALSE], TRUE, FALSE, env)

rotate_begin(s) == [s EXCEPT !.is_rotating = TRUE]

rotate_end(s) == [s EXCEPT !.is_rotating = FALSE]

drag_gesture_begin(s) ==
    emit_picked_changed([s EXCEPT !.drag_last = << 0, 0 >>,
                                  !.is_drag_gesture = TRUE,
                                  !.selected_vertices = {},
                                  !.preselected_vertices = None,
                                  !.picked = PickedFalse])

drag_gesture_end(s) == [s EXCEPT !.is_drag_gesture = FALSE]

drag_gesture_update(s, dx, dy) ==
    [s EXCEPT !.smatrix = Multiply(@, Translation(dx - s.drag_last[1], dy - s.drag_last[2])),
              !.drag_last = << dx, dy >>]

(***************************************************************************)
(* Drawing.                                                                *)
(***************************************************************************)
\* the vertices next to a marked one (infect_vertex_property, undirected)
Infected(s, vs) ==
    vs \cup {e.tgt : e \in {x \in EdgeSet(s) : x.src \in vs}}
       \cup {e.src : e \in {x \in EdgeSet(s) : x.tgt \in vs}}

\* the corners c of the cache surface do not cover the viewport
Uncovered(xs, ys) ==
    SetMin(xs) > 0 \/ SetMax(xs) < AllocW \/ SetMin(ys) > 0 \/ SetMax(ys) < AllocH
UncoveredBy(c) == Uncovered({q[1] : q \in c}, {q[2] : q \in c})
Corners(g) == {<< 0, 0 >>, << 0, g[2] >>, << g[1], 0 >>, << g[1], g[2] >>}
CacheMisses(s) ==
    UncoveredBy({TransformPoint(s.smatrix, q) : q \in Corners(Val(s.base_geometry))})

\* the highlight map draw leaves behind: the neighbours of a vertex pick,
\* the endpoints of an edge pick that are not preselected
Xor(a, b) == (a \ b) \cup (b \ a)

\* a variant: the selected vertices stay in the map of a vertex pick
HighlightOf_infected(s, sel) ==
    IF IsVertexTyped(s.picked) THEN Infected(s, sel)
    ELSE IF IsEdgeTyped(s.picked)
    THEN (IF IsNone(s.preselected_vertices) THEN sel
          ELSE Xor(sel, Val(s.preselected_vertices) \cap Vertices(s)))
    ELSE s.highlight

HighlightOf(s, sel) ==
    IF IsVertexTyped(s.picked) THEN Infected(s, sel) \ sel
    ELSE IF IsEdgeTyped(s.picked)
    THEN (IF IsNone(s.preselected_vertices) THEN sel
          ELSE Xor(sel, Val(s.preselected_vertices) \cap Vertices(s)))
    ELSE s.highlight
Highlight(s) == HighlightOf(s, s.selected_vertices \cap Vertices(s))

\* draw, the first time: the graph is fitted and the cache is made
draw_first(s, env) ==
    IF IsNone(s.geometry)
    THEN [regenerate_surface(fit_to_window(adjust_default_sizes(s, FALSE), env),
                             FALSE, FALSE, env)
            EXCEPT !.geometry = Some(<< AllocW, AllocH >>)]
    ELSE s

\* a variant: a surface rebuilt but not painted to the end is continued in
\* the same draw
draw_cache_through(s, env) ==
    IF CacheMisses(s) \/ s.lazy_regenerate
    THEN (IF regenerate_surface(s, TRUE, FALSE, env).regenerate_offset > 0
          THEN regenerate_surface(regenerate_surface(s, TRUE, FALSE, env), FALSE, FALSE, env)
          ELSE regenerate_surface(s, TRUE, FALSE, env))
    ELSE IF s.regenerate_offset > 0 THEN regenerate_surface(s, FALSE, FALSE, env)
    ELSE s

\* draw, the cache: rebuilt when it does not cover the viewport or a zoom is
\* pending, continued when it is not painted to the end
draw_cache(s, env) ==
    IF CacheMisses(s) \/ s.lazy_regenerate THEN regenerate_surface(s, TRUE, FALSE, env)
    ELSE IF s.regenerate_offset > 0 THEN regenerate_surface(s, FALSE, FALSE, env)
    ELSE s

\* the layers draw paints, in the order it paints them.  Over the background
\* and the cache surface come the overlays of the pick, then the rubber
\* band, the zoom rectangle and the preview of the new edge, then the busy
\* icon while the cache is not painted to the end
Layer(cond, name) == IF cond THEN << name >> ELSE << >>
prepicked_layers(s) ==
    Layer(s.prepicked.t = "Edge", "prepicked_edge")
    \o Layer(s.prepicked.t = "Vertex", "prepicked_vertex")
    \o Layer(~IsNone(s.preselected_vertices), "preselected_vertices")
    \o << "selected_vertices" >>
vertex_overlays(s) ==
    Layer(~IsNone(s.preselected_edges), "preselected_edges")
    \o << "selected_edges" >>
    \o prepicked_layers(s)
edge_overlays(s) ==
    << "connected_edges", "selected_edges" >>
    \o Layer(~IsNone(s.preselected_edges), "preselected_edges")
    \o prepicked_layers(s)
pick_overlays(s) ==
    IF IsVertexTyped(s.picked) THEN vertex_overlays(s)
    ELSE IF IsEdgeTyped(s.picked) THEN edge_overlays(s)
    ELSE << >>
gesture_layers(s) ==
    Layer(~IsNone(s.srect), "srect") \o Layer(~IsNone(s.zrect), "zrect")
    \o Layer(~IsNone(s.new_edge), "new_edge")
Frame(s) ==
    << "background", "base" >> \o pick_overlays(s) \o gesture_layers(s)
    \o Layer(s.regenerate_offset > 0, "busy")

\* the overlays are painted over the one state the cache steps have left
draw_overlays(s) ==
    CHOOSE r \in {[t EXCEPT !.highlight = Highlight(t), !.frame = Frame(t)] : t \in {s}} : TRUE

draw(s, env) == draw_overlays(draw_cache(draw_first(s, env), env))

(***************************************************************************)
(* Handlers of the window's side lists and buttons.                        *)
(***************************************************************************)
\* _preselect on a row of the vertex filter ("v") or the edge filter ("e")
preselect(s, kind, row) ==
    IF kind = "v"
    THEN LET to == row \notin s.vchk
             base == IF IsNone(s.preselected_vertices) THEN {} ELSE Val(s.preselected_vertices)
             new == IF to THEN base \cup {row} ELSE base \ {row}
         IN  [s EXCEPT !.vchk = IF to THEN @ \cup {row} ELSE @ \ {row},
                       !.preselected_vertices =
                           IF new \cap Vertices(s) = {} THEN None ELSE Some(new)]
    ELSE LET to == row.id \notin s.echk
             base == IF IsNone(s.preselected_edges) THEN {} ELSE Val(s.preselected_edges)
             new == IF to THEN base \cup {row.id} ELSE base \ {row.id}
         IN  [s EXCEPT !.echk = IF to THEN @ \cup {row.id} ELSE @ \ {row.id},
                       !.preselected_edges =
                           IF new \cap EdgeIds(s) = {} THEN None ELSE Some(new)]

\* a variant: every element of the graph is marked, not the selected ones
preselect_all_of_graph(s, view, to) ==
    IF view = "v"
    THEN [s EXCEPT !.vchk = IF to THEN @ \cup VisibleVertexRows(s)
                            ELSE @ \ VisibleVertexRows(s),
                   !.preselected_vertices = IF to THEN Some(Vertices(s)) ELSE None]
    ELSE IF view = "e"
    THEN [s EXCEPT !.echk = IF to THEN @ \cup {e.id : e \in VisibleEdgeRows(s)}
                            ELSE @ \ {e.id : e \in VisibleEdgeRows(s)},
                   !.preselected_edges = IF to THEN Some(EdgeIds(s)) ELSE None]
    ELSE s

\* _preselect_all on the model of a view
preselect_all(s, view, to) ==
    IF view = "v"
    THEN [s EXCEPT !.vchk = IF to THEN @ \cup VisibleVertexRows(s)
                            ELSE @ \ VisibleVertexRows(s),
                   !.preselected_vertices = IF to THEN Some(s.selected_vertices) ELSE None]
    ELSE IF view = "e"
    THEN [s EXCEPT !.echk = IF to THEN @ \cup {e.id : e \in VisibleEdgeRows(s)}
                            ELSE @ \ {e.id : e \in VisibleEdgeRows(s)},
                   !.preselected_edges = IF to THEN Some(s.selected_edges) ELSE None]
    ELSE s

\* a checkbox of the selected list is toggled
preselect_to_remove_event(s, row) ==
    preselect([s EXCEPT !.select_all_remove = FALSE,
                        !.allow_select_all_remove = IF s.select_all_remove THEN TRUE ELSE @],
              s.selected_view, row)

\* highlight_prepicked_event: the cursor of a list is put on a row of the
\* vertex filter ("v") or of the edge filter ("e"), or on no row
highlight_prepicked_event(s, view, row) ==
    [s EXCEPT !.prepicked = IF view = "v" THEN PickedVertex(row)
                            ELSE IF view = "e" THEN PickedEdge(row)
                            ELSE PickedNone]

\* a checkbox of the connected list is toggled
preselect_to_select_event(s, row) ==
    preselect([s EXCEPT !.select_all_select = FALSE,
                        !.allow_select_all_select = IF s.select_all_select THEN TRUE ELSE @],
              s.connected_view, row)

\* the select-all check button of the selected list is clicked
preselect_all_to_remove_event(s) ==
    LET s1 == [s EXCEPT !.select_all_remove = ~@]
        s2 == IF s1.allow_select_all_remove /\ s1.selected_view # "None"
              THEN preselect_all(s1, s1.selected_view, s1.select_all_remove)
              ELSE s1
    IN  [s2 EXCEPT !.allow_select_all_remove = TRUE]

\* the select-all check button of the connected list is clicked
preselect_all_to_select_event(s) ==
    LET s1 == [s EXCEPT !.select_all_select = ~@]
        s2 == IF s1.allow_select_all_select /\ s1.connected_view # "None"
              THEN preselect_all(s1, s1.connected_view, s1.select_all_select)
              ELSE s1
    IN  [s2 EXCEPT !.allow_select_all_select = TRUE]

\* selected_vertices is bound to a new map: a view kept in is_moving stays on
\* the old one
Rebind(s) ==
    IF ~IsNone(s.is_moving) /\ Val(s.is_moving).live
    THEN [s EXCEPT !.is_moving = Some([Val(@) EXCEPT !.live = FALSE,
                                                     !.u = s.selected_vertices])]
    ELSE s

\* select_event that keeps the preselection it has confirmed
select_event_keeping(s) ==
    IF s.connected_view = "v" /\ ~IsNone(s.preselected_vertices)
    THEN emit_picked_changed(
           [Rebind(s) EXCEPT !.picked = PickedVMap(Val(s.preselected_vertices)),
                             !.selected_vertices = Val(s.preselected_vertices)])
    ELSE IF s.connected_view = "e" /\ ~IsNone(s.preselected_edges)
    THEN emit_picked_changed(
           [s EXCEPT !.picked = PickedEMap(Val(s.preselected_edges)),
                     !.selected_edges = Val(s.preselected_edges)])
    ELSE s

select_event(s) ==
    IF s.connected_view = "v" /\ ~IsNone(s.preselected_vertices)
    THEN emit_picked_changed(
           [Rebind(s) EXCEPT !.picked = PickedVMap(Val(s.preselected_vertices)),
                             !.selected_vertices = Val(s.preselected_vertices),
                             !.preselected_vertices = None])
    ELSE IF s.connected_view = "e" /\ ~IsNone(s.preselected_edges)
    THEN emit_picked_changed(
           [s EXCEPT !.picked = PickedEMap(Val(s.preselected_edges)),
                     !.selected_edges = Val(s.preselected_edges),
                     !.preselected_edges = None])
    ELSE s

RECURSIVE RemoveEdges(_, _)
RemoveEdges(s, es) ==
    IF es = {} \/ s.exc THEN s
    ELSE RemoveEdges(remove_edge(s, CHOOSE x \in es : \A y \in es : x.id <= y.id),
                     es \ {CHOOSE x \in es : \A y \in es : x.id <= y.id})

\* remove_event on the vertex list: the spatial index is rebuilt afterwards
\* if there was one
reinit_if(s, reinit, env) ==
    IF reinit /\ ~s.exc THEN init_vertex_matrix(s, env) ELSE s
remove_vertices(s, remove, env) ==
    reinit_if(RemoveAll(s, remove), remove # {} /\ ~IsNone(s.vertex_matrix), env)

remove_event(s, env) ==
    graph_changed_unless_raised(
      IF s.selected_view = "v"
      THEN remove_vertices(s, VisibleVertexRows(s) \cap s.vchk, env)
      ELSE IF s.selected_view = "e"
      THEN RemoveEdges(s, {e \in VisibleEdgeRows(s) : e.id \in s.echk})
      ELSE s,
      env)

mode_button_clicked_event(s, mode) == [s EXCEPT !.edit_mode = mode]

\* _save_tab with a file name chosen
save_tab(s, env) == emit_graph_changed(s, FALSE, env)

\* the second half of _save_tab: a tab with a file name is saved
save_tab_had(s, env) == IF IsNone(s.file_name) THEN s ELSE save_tab(s, env)

\* the end of _close_tab: the page is removed unless the response is None
close_tab_remove(s, response) ==
    IF IsNone(response) THEN s ELSE [s EXCEPT !.in_notebook = FALSE]

\* cleanup's result: a page stayed
cleanup_result(r) == r.in_notebook

\* the default handler of delete-event runs when no window vetoes
destroy_window(r) == [r EXCEPT !.window_open = cleanup_result(r)]

\* the file names a file chooser may return
FileNames == {Some("g.gt")}
FileChoices == FileNames \cup {None}

\* _pick_file_dialog: the name chosen, None when the dialog is abandoned
pick_file_dialog(chosen) == chosen

\* _save_tab: a tab without a file name asks for one; without a name nothing
\* is saved
save_tab_named(s, chosen, env) ==
    save_tab_had(
        IF IsNone(s.file_name) THEN [s EXCEPT !.file_name = pick_file_dialog(chosen)] ELSE s,
        env)

\* save_as_current_tab_event: asks for a name first, saves when one is given
save_as_current_tab_event(s, chosen, env) ==
    IF IsNone(pick_file_dialog(chosen))
    THEN s
    ELSE save_tab_named([s EXCEPT !.file_name = pick_file_dialog(chosen)], None, env)

\* _yes_no_dialog: Yes is True, No is False, anything else None
Answers == {"yes", "no", "cancel"}
yes_no_dialog(answer) ==
    IF answer = "yes" THEN Some(TRUE) ELSE IF answer = "no" THEN Some(FALSE) ELSE None

\* the response _close_tab works with: the dialog's for a changed tab
close_response(s, answer) == IF s.changed THEN yes_no_dialog(answer) ELSE Some(TRUE)

\* _close_tab: a changed tab asks, saves on Yes and leaves the notebook
\* unless the answer is None
close_tab(s, answer, chosen, env) ==
    close_tab_remove(
        IF s.changed /\ close_response(s, answer) = Some(TRUE)
        THEN save_tab_named(s, chosen, env)
        ELSE s,
        close_response(s, answer))

\* cleanup: closes every page; the result tells that a page stayed
cleanup(s, answer, chosen, env) ==
    IF s.in_notebook THEN close_tab(s, answer, chosen, env) ELSE s

\* destroy_callback on delete-event: the window goes unless a window vetoes
destroy_callback(s, answer, chosen, env) ==
    destroy_window(cleanup(s, answer, chosen, env))

(***************************************************************************)
(* Graph manipulations.  A label is a sequence of pieces; label_sep is one *)
(* piece.                                                                  *)
(***************************************************************************)
LabelSep == << ", " >>

SameEnds(a, b) == a.src = b.src /\ a.tgt = b.tgt

\* label_parallel_edges(g, mark_only=True): every edge but the first of the
\* out-edges of its source with its target
ParallelMarked(s) ==
    {s.edges[i] : i \in {k \in DOMAIN s.edges :
                            \E j \in 1..(k - 1) : SameEnds(s.edges[j], s.edges[k])}}

\* g.edge(source, target): the first edge found in the out-list of the
\* source or in the in-list of the target, whichever is shorter; the in-list
\* is not kept in the order of insertion
Remaining(s, e, tie) ==
    LET class == {i \in DOMAIN s.edges : SameEnds(s.edges[i], e)}
    IN  s.edges[IF tie = "lo" THEN SetMin(class) ELSE SetMax(class)]

\* text[remaining] += label_sep + text[edge], or = text[edge]
join_label(s, e, r) ==
    IF Val(s.text)[e.id] = << >> THEN s
    ELSE [s EXCEPT !.text = Some([Val(@) EXCEPT ![r.id] =
                                    IF @ # << >> THEN @ \o LabelSep \o Val(s.text)[e.id]
                                    ELSE Val(s.text)[e.id]])]

\* for edge in g.edges(): if marked[edge]: ...
RECURSIVE join_labels(_, _, _, _)
join_labels(s, k, marked, tie) ==
    IF k > Len(s.edges) THEN s
    ELSE join_labels(IF s.edges[k] \in marked
                     THEN join_label(s, s.edges[k], Remaining(s, s.edges[k], tie))
                     ELSE s,
                     k + 1, marked, tie)

\* a variant: one labelled edge is removed at a time
remove_first_labeled_edge(s, marked) ==
    IF marked = {} THEN s
    ELSE remove_edge(s, CHOOSE x \in marked : \A y \in marked : x.id <= y.id)

\* remove_labeled_edges(g, marked)
remove_labeled_edges(s, marked) == RemoveEdges(s, marked)

merge_parallel_edges(s, env) ==
    remove_labeled_edges(IF IsNone(s.text) THEN s
                         ELSE join_labels(s, 1, ParallelMarked(s), env.tie),
                         ParallelMarked(s))

(***************************************************************************)
(* The state: the graph (nv, edges, efree, pos), the fields of the widget, *)
(* the window's lists and check buttons, and the record of the last event  *)
(* (last: its handler; sig: the signals it emitted; exc: it raised; werr:  *)
(* a connected signal handler raised; resets: the cache resets it made;    *)
(* paints: the passes of cairo_draw over the cache surface it made;        *)
(* frame: the layers it painted on the widget, in order;                   *)
(* prepicked: the element of the list row under the cursor;                *)
(* file_name: the file of the tab, None until one is chosen;               *)
(* in_notebook: the tab is a page of the notebook;                         *)
(* window_open: the window has not been closed;                            *)
(* text: the edge labels eprops["text"], None when there are none;        *)
(* size: the vertex size vprops["size"], None until it is given;           *)
(* btn1: mouse button 1 is held down; steps: the input events so far;      *)
(* horizon: the number of input events the session lasts).                 *)
(***************************************************************************)
VARIABLES
    nv, edges, efree, pos, edit_mode, pointer, picked, selected_vertices,
    selected_edges, preselected_vertices, preselected_edges, highlight,
    srect, zrect, new_edge, drag_vector, is_moving, is_panning,
    vertex_matrix, moved_picked, tmatrix, smatrix, scale, geometry,
    base_geometry, regenerate_offset, lazy_regenerate, is_zooming,
    is_rotating, is_drag_gesture, drag_last, changed, realized, vrows,
    vchk, erows, echk, selected_view, connected_view, select_all_select,
    select_all_remove, allow_select_all_select, allow_select_all_remove,
    text, size, sig, exc, werr, last, btn1, resets, paints, prepicked, frame,
    file_name, in_notebook, window_open, steps, horizon

vars ==
    << nv, edges, efree, pos, edit_mode, pointer, picked,
       selected_vertices, selected_edges, preselected_vertices,
       preselected_edges, highlight, srect, zrect, new_edge, drag_vector,
       is_moving, is_panning, vertex_matrix, moved_picked, tmatrix,
       smatrix, scale, geometry, base_geometry, regenerate_offset,
       lazy_regenerate, is_zooming, is_rotating, is_drag_gesture,
       drag_last, changed, realized, vrows, vchk, erows, echk,
       selected_view, connected_view, select_all_select,
       select_all_remove, allow_select_all_select,
       allow_select_all_remove, text, size, sig, exc, werr, last, btn1, resets,
       paints, prepicked, frame, file_name, in_notebook, window_open, steps,
       horizon >>

\* the state as the record the handlers work on
Cur ==
    [ nv |-> nv, edges |-> edges, efree |-> efree, pos |-> pos,
      edit_mode |-> edit_mode, pointer |-> pointer, picked |-> picked,
      selected_vertices |-> selected_vertices,
      selected_edges |-> selected_edges,
      preselected_vertices |-> preselected_vertices,
      preselected_edges |-> preselected_edges, highlight |-> highlight,
      srect |-> srect, zrect |-> zrect, new_edge |-> new_edge,
      drag_vector |-> drag_vector, is_moving |-> is_moving,
      is_panning |-> is_panning, vertex_matrix |-> vertex_matrix,
      moved_picked |-> moved_picked, tmatrix |-> tmatrix,
      smatrix |-> smatrix, scale |-> scale, geometry |-> geometry,
      base_geometry |-> base_geometry,
      regenerate_offset |-> regenerate_offset,
      lazy_regenerate |-> lazy_regenerate, is_zooming |-> is_zooming,
      is_rotating |-> is_rotating, is_drag_gesture |-> is_drag_gesture,
      drag_last |-> drag_last, changed |-> changed,
      realized |-> realized, vrows |-> vrows, vchk |-> vchk,
      erows |-> erows, echk |-> echk, selected_view |-> selected_view,
      connected_view |-> connected_view,
      select_all_select |-> select_all_select,
      select_all_remove |-> select_all_remove,
      allow_select_all_select |-> allow_select_all_select,
      allow_select_all_remove |-> allow_select_all_remove, text |-> text,
      size |-> size,
      sig |-> sig,
      exc |-> exc, werr |-> werr, last |-> last, btn1 |-> btn1,
      resets |-> resets, paints |-> paints, prepicked |-> prepicked,
      frame |-> frame, file_name |-> file_name, in_notebook |-> in_notebook,
      window_open |-> window_open, steps |-> steps ]

\* the state a handler leaves becomes the next state
Apply(r) ==
    /\ nv' = r.nv
    /\ edges' = r.edges
    /\ efree' = r.efree
    /\ pos' = r.pos
    /\ edit_mode' = r.edit_mode
    /\ pointer' = r.pointer
    /\ picked' = r.picked
    /\ selected_vertices' = r.selected_vertices
    /\ selected_edges' = r.selected_edges
    /\ preselected_vertices' = r.preselected_vertices
    /\ preselected_edges' = r.preselected_edges
    /\ highlight' = r.highlight
    /\ srect' = r.srect
    /\ zrect' = r.zrect
    /\ new_edge' = r.new_edge
    /\ drag_vector' = r.drag_vector
    /\ is_moving' = r.is_moving
    /\ is_panning' = r.is_panning
    /\ vertex_matrix' = r.vertex_matrix
    /\ moved_picked' = r.moved_picked
    /\ tmatrix' = r.tmatrix
    /\ smatrix' = r.smatrix
    /\ scale' = r.scale
    /\ geometry' = r.geometry
    /\ base_geometry' = r.base_geometry
    /\ regenerate_offset' = r.regenerate_offset
    /\ lazy_regenerate' = r.lazy_regenerate
    /\ is_zooming' = r.is_zooming
    /\ is_rotating' = r.is_rotating
    /\ is_drag_gesture' = r.is_drag_gesture
    /\ drag_last' = r.drag_last
    /\ changed' = r.changed
    /\ realized' = r.realized
    /\ vrows' = r.vrows
    /\ vchk' = r.vchk
    /\ erows' = r.erows
    /\ echk' = r.echk
    /\ selected_view' = r.selected_view
    /\ connected_view' = r.connected_view
    /\ select_all_select' = r.select_all_select
    /\ select_all_remove' = r.select_all_remove
    /\ allow_select_all_select' = r.allow_select_all_select
    /\ allow_select_all_remove' = r.allow_select_all_remove
    /\ sig' = r.sig
    /\ exc' = r.exc
    /\ werr' = r.werr
    /\ last' = r.last
    /\ btn1' = r.btn1
    /\ resets' = r.resets
    /\ paints' = r.paints
    /\ prepicked' = r.prepicked
    /\ frame' = r.frame
    /\ file_name' = r.file_name
    /\ in_notebook' = r.in_notebook
    /\ window_open' = r.window_open
    /\ text' = r.text
    /\ size' = r.size
    /\ steps' = r.steps
    /\ horizon' = horizon

\* the record of the last event starts afresh with every event
BeginOn(s, name) ==
    [s EXCEPT !.last = name, !.sig = << >>, !.exc = FALSE, !.werr = FALSE, !.resets = 0,
              !.paints = 0, !.frame = << >>,
              !.steps = IF name \in {"draw", "add_some_graphs"} THEN @ ELSE @ + 1]
Begin(name) == BeginOn(Cur, name)

(***************************************************************************)
(* Construction: add_new_tab(g, pos) builds the widget around a graph and  *)
(* the window fills its stores on the page switch.                         *)
(***************************************************************************)
Graph(n, ps, es) == [nv |-> n, pos |-> [v \in 0..(n - 1) |-> ps[v + 1]], edges |-> es]

\* the graphs a tab is opened with: the empty graph, one vertex, two
\* vertices joined by an edge
InitGraphs ==
    {g \in {Graph(0, << >>, << >>),
            Graph(1, << << 0, 0 >> >>, << >>),
            Graph(2, << << 0, 0 >>, << Pitch, Pitch >> >>, << Edge(0, 0, 1) >>)} :
        g.nv <= MaxV /\ Len(g.edges) <= MaxE}

\* GraphEditorWidget.__init__ and the first page_changed_event
Constructed(g) ==
    [nv |-> g.nv, edges |-> g.edges, efree |-> << >>, pos |-> g.pos,
     edit_mode |-> "select", pointer |-> << 0, 0 >>, picked |-> PickedNone,
     selected_vertices |-> {}, selected_edges |-> {},
     preselected_vertices |-> None, preselected_edges |-> None, highlight |-> {},
     srect |-> None, zrect |-> None, new_edge |-> None,
     drag_vector |-> Some(<< 0, 0 >>), is_moving |-> None, is_panning |-> FALSE,
     vertex_matrix |-> None, moved_picked |-> FALSE,
     tmatrix |-> IdentityMatrix, smatrix |-> IdentityMatrix, scale |-> 1,
     geometry |-> None, base_geometry |-> None, regenerate_offset |-> 0,
     lazy_regenerate |-> FALSE, is_zooming |-> FALSE, is_rotating |-> FALSE,
     is_drag_gesture |-> FALSE, drag_last |-> << 0, 0 >>, changed |-> FALSE,
     realized |-> FALSE,
     vrows |-> 0..(g.nv - 1), vchk |-> {},
     erows |-> {g.edges[i] : i \in DOMAIN g.edges}, echk |-> {},
     selected_view |-> "None", connected_view |-> "None",
     select_all_select |-> FALSE, select_all_remove |-> FALSE,
     allow_select_all_select |-> TRUE, allow_select_all_remove |-> TRUE,
     text |-> None, size |-> None,
     sig |-> << >>, exc |-> FALSE, werr |-> FALSE, last |-> "init", btn1 |-> FALSE,
     resets |-> 0, paints |-> 0, prepicked |-> PickedNone, frame |-> << >>,
     file_name |-> None, in_notebook |-> TRUE, window_open |-> TRUE, steps |-> 0]

InitWith(r) ==
    /\ nv = r.nv /\ edges = r.edges /\ efree = r.efree /\ pos = r.pos
    /\ edit_mode = r.edit_mode /\ pointer = r.pointer /\ picked = r.picked
    /\ selected_vertices = r.selected_vertices /\ selected_edges = r.selected_edges
    /\ preselected_vertices = r.preselected_vertices
    /\ preselected_edges = r.preselected_edges /\ highlight = r.highlight
    /\ srect = r.srect /\ zrect = r.zrect /\ new_edge = r.new_edge
    /\ drag_vector = r.drag_vector /\ is_moving = r.is_moving
    /\ is_panning = r.is_panning /\ vertex_matrix = r.vertex_matrix
    /\ moved_picked = r.moved_picked /\ tmatrix = r.tmatrix /\ smatrix = r.smatrix
    /\ scale = r.scale /\ geometry = r.geometry /\ base_geometry = r.base_geometry
    /\ regenerate_offset = r.regenerate_offset /\ lazy_regenerate = r.lazy_regenerate
    /\ is_zooming = r.is_zooming /\ is_rotating = r.is_rotating
    /\ is_drag_gesture = r.is_drag_gesture /\ drag_last = r.drag_last
    /\ changed = r.changed /\ realized = r.realized
    /\ vrows = r.vrows /\ vchk = r.vchk /\ erows = r.erows /\ echk = r.echk
    /\ selected_view = r.selected_view /\ connected_view = r.connected_view
    /\ select_all_select = r.select_all_select
    /\ select_all_remove = r.select_all_remove
    /\ allow_select_all_select = r.allow_select_all_select
    /\ allow_select_all_remove = r.allow_select_all_remove
    /\ sig = r.sig /\ exc = r.exc /\ werr = r.werr /\ last = r.last /\ btn1 = r.btn1
    /\ text = r.text /\ size = r.size
    /\ resets = r.resets /\ paints = r.paints /\ steps = r.steps
    /\ prepicked = r.prepicked /\ frame = r.frame /\ file_name = r.file_name
    /\ in_notebook = r.in_notebook /\ window_open = r.window_open

Init == horizon = MaxSteps /\ \E g \in InitGraphs : InitWith(Constructed(g))

(***************************************************************************)
(* The environment: GTK, the user's mouse, keyboard and touch screen.      *)
(***************************************************************************)
\* the results of the library calls a handler makes: the layout sfdp_layout
\* returns, the order of a cell's set, the ray casting at a border, the
\* elements cairo_draw paints in its time budget, the fit of fit_to_view
Env(lay, tie, border) ==
    [lay |-> lay, tie |-> tie, border |-> border, budget |-> MaxV + MaxE,
     fit_offset |-> << 0, 0 >>, fit_zoom |-> 1]
Lays == 0..MaxCoord
Ties == {"lo", "hi"}

\* the pointer is inside the widget
InWindow(d) == d[1] \in 0..AllocW /\ d[2] \in 0..AllocH

\* the bounds of the model
OffsetBounded(m) == Abs(m.x0) <= MaxPan /\ Abs(m.y0) <= MaxPan
ViewBounded(r) == OffsetBounded(Multiply(r.tmatrix, r.smatrix))
Bounded(r) ==
    /\ r.nv <= Max2(MaxV, nv) /\ Len(r.edges) <= MaxE
    /\ \A v \in Vertices(r) : r.pos[v] \in Points
    /\ ViewBounded(r)

\* the event leaves the view (the composite transform) where it is
ViewFixed(r) == Multiply(r.tmatrix, r.smatrix) = Multiply(tmatrix, smatrix)

\* the widget is on screen and has been drawn once
Ready == realized /\ ~IsNone(geometry) /\ steps < horizon

\* the state an event leaves becomes the next state, within the bounds
Commit(r) == Bounded(r) /\ Apply(r)

\* pan: the event may move the view
CommitView(r, pan) == Bounded(r) /\ (pan \/ ViewFixed(r)) /\ Apply(r)

\* mouse button 1 goes down or up with the event
Held(r, b) == [r EXCEPT !.btn1 = b]

Realize ==
    /\ ~realized
    /\ Apply([Cur EXCEPT !.realized = TRUE])

\* pyflap.add_some_graphs: graph-changed is emitted right after add_new_tab,
\* before the first draw; the page may or may not have a window by then
AddSomeGraphs ==
    /\ IsNone(geometry) /\ last = "init"
    /\ Apply(emit_graph_changed(Begin("add_some_graphs"), TRUE, Env(0, "lo", FALSE)))

Draw ==
    /\ realized
    /\ Apply(draw(Begin("draw"), Env(0, "lo", FALSE)))

Press1(p, shift, ctrl) ==
    /\ Ready /\ ~btn1 /\ InWindow(pos_to_device(Cur, p))
    /\ \E lay \in Lays, tie \in Ties :
         Commit(Held(button_press_event(Begin("button_press_event(1)"),
                                        pos_to_device(Cur, p), 1, shift, ctrl,
                                        Env(lay, tie, FALSE)),
                     TRUE))

Press3(p) ==
    /\ Ready /\ InWindow(pos_to_device(Cur, p))
    /\ \E lay \in Lays :
         Commit(button_press_event(Begin("button_press_event(3)"),
                                   pos_to_device(Cur, p), 3, FALSE, FALSE,
                                   Env(lay, "lo", FALSE)))

\* a zoom rectangle is released only where the zoom is a whole number
Release1(p, pan) ==
    /\ Ready /\ btn1 /\ InWindow(pos_to_device(Cur, p))
    /\ ~IsNone(zrect) => ZoomExact(Val(zrect)) /\ ZoomOf(Val(zrect)) = 1
    /\ \E lay \in Lays, tie \in Ties, border \in BOOLEAN :
         CommitView(Held(button_release_event(Begin("button_release_event(1)"),
                                              pos_to_device(Cur, p), 1,
                                              Env(lay, tie, border)),
                         FALSE),
                    pan)

\* a motion without button 1 stores the pointer and nothing else
Motion(p, shift, ctrl, pan) ==
    /\ Ready /\ btn1 /\ InWindow(pos_to_device(Cur, p))
    /\ CommitView(motion_notify_event(Begin("motion_notify_event"),
                                      pos_to_device(Cur, p), btn1, shift, ctrl),
                  pan)

Scroll(p, dy, shift, pan) ==
    /\ Ready /\ InWindow(pos_to_device(Cur, p))
    /\ \E lay \in Lays, tie \in Ties :
         CommitView(scroll_event(Begin("scroll_event"), pos_to_device(Cur, p), dy, shift,
                                 Env(lay, tie, FALSE)),
                    pan)

KeyPress(key) ==
    /\ Ready
    /\ Commit(key_press_event(Begin("key_press_event"), key, Env(0, "lo", FALSE)))

ZoomBegin == Ready /\ ~is_zooming /\ Apply(zoom_begin(Begin("zoom_begin")))

ZoomEnd == Ready /\ is_zooming /\ Apply(zoom_end(Begin("zoom_end"), Env(0, "lo", FALSE)))

RotateBegin == Ready /\ ~is_rotating /\ Apply(rotate_begin(Begin("rotate_begin")))

RotateEnd == Ready /\ is_rotating /\ Apply(rotate_end(Begin("rotate_end")))

DragGestureBegin ==
    Ready /\ ~is_drag_gesture /\ Apply(drag_gesture_begin(Begin("drag_gesture_begin")))

DragGestureUpdate(dx, dy) ==
    /\ Ready /\ is_drag_gesture
    /\ Commit(drag_gesture_update(Begin("drag_gesture_update"), dx, dy))

DragGestureEnd ==
    Ready /\ is_drag_gesture /\ Apply(drag_gesture_end(Begin("drag_gesture_end")))

\* the user works the side panel with the mouse: no button is held meanwhile
ModeClicked(mode) ==
    /\ Ready /\ ~btn1
    /\ Apply(mode_button_clicked_event(Begin("mode_button_clicked_event"), mode))

\* the rows of a list on screen
RowsOf(view) ==
    IF view = "v" THEN VisibleVertexRows(Cur)
    ELSE IF view = "e" THEN VisibleEdgeRows(Cur)
    ELSE {}

ToggleRemoveRow ==
    /\ Ready /\ ~btn1
    /\ \E row \in RowsOf(selected_view) :
         Apply(preselect_to_remove_event(Begin("preselect_to_remove_event"), row))

ToggleSelectRow ==
    /\ Ready /\ ~btn1
    /\ \E row \in RowsOf(connected_view) :
         Apply(preselect_to_select_event(Begin("preselect_to_select_event"), row))

ToggleAllRemove ==
    /\ Ready /\ ~btn1
    /\ Apply(preselect_all_to_remove_event(Begin("preselect_all_to_remove_event")))

ToggleAllSelect ==
    /\ Ready /\ ~btn1
    /\ Apply(preselect_all_to_select_event(Begin("preselect_all_to_select_event")))

SelectClicked ==
    /\ Ready /\ ~btn1
    /\ Apply(select_event(Begin("select_event")))

RemoveClicked ==
    /\ Ready /\ ~btn1
    /\ \E lay \in Lays : Commit(remove_event(Begin("remove_event"), Env(lay, "lo", FALSE)))

SaveTab ==
    /\ Ready /\ ~btn1 /\ changed
    /\ Apply(save_tab(Begin("save_tab"), Env(0, "lo", FALSE)))

\* the event's name, with the answer when the save prompt is shown
Asked(name, answer) ==
    IF ~(in_notebook /\ changed) THEN name
    ELSE IF name = "close_tab_event"
    THEN (IF answer = "yes" THEN "close_tab_event(yes)"
          ELSE IF answer = "no" THEN "close_tab_event(no)" ELSE "close_tab_event(cancel)")
    ELSE (IF answer = "yes" THEN "delete_event(yes)"
          ELSE IF answer = "no" THEN "delete_event(no)" ELSE "delete_event(cancel)")

\* no dialog is shown for an unchanged tab, nor a chooser for a named one
Shown(answer, chosen) ==
    /\ (in_notebook /\ changed) \/ answer = "yes"
    /\ (in_notebook /\ changed /\ answer = "yes" /\ IsNone(file_name)) \/ IsNone(chosen)

SaveCurrentTab(chosen) ==
    /\ in_notebook /\ window_open /\ steps < horizon /\ ~btn1
    /\ IsNone(file_name) \/ IsNone(chosen)
    /\ Apply(save_tab_named(Begin("save_current_tab_event"), chosen, Env(0, "lo", FALSE)))

SaveAsCurrentTab(chosen) ==
    /\ in_notebook /\ window_open /\ steps < horizon /\ ~btn1
    /\ Apply(save_as_current_tab_event(Begin("save_as_current_tab_event"), chosen,
                                       Env(0, "lo", FALSE)))

CloseTab(answer, chosen) ==
    /\ in_notebook /\ window_open /\ steps < horizon /\ ~btn1
    /\ Shown(answer, chosen)
    /\ Apply(close_tab(Begin(Asked("close_tab_event", answer)), answer, chosen,
                       Env(0, "lo", FALSE)))

DeleteEvent(answer, chosen) ==
    /\ window_open /\ steps < horizon /\ ~btn1
    /\ Shown(answer, chosen)
    /\ Apply(destroy_callback(Begin(Asked("delete_event", answer)), answer, chosen,
                              Env(0, "lo", FALSE)))

Modes == {"select", "place_node", "place_edge"}
Keys == {"z", "Shift", "Ctrl"}
Deltas == {0 - 1, 1}
Drags == {0 - Pitch, 0, Pitch}

\* the editor with the view left where the first draw put it
Next ==
    \/ Realize
    \/ AddSomeGraphs
    \/ Draw
    \/ \E p \in Points, shift \in BOOLEAN, ctrl \in BOOLEAN : Press1(p, shift, ctrl)
    \/ \E p \in Points : Press3(p)
    \/ \E p \in Points : Release1(p, FALSE)
    \/ \E p \in Points, shift \in BOOLEAN, ctrl \in BOOLEAN : Motion(p, shift, ctrl, FALSE)
    \/ \E p \in Points, dy \in Deltas : Scroll(p, dy, FALSE, FALSE)
    \/ \E key \in Keys : KeyPress(key)
    \/ ZoomBegin
    \/ ZoomEnd
    \/ DragGestureBegin
    \/ DragGestureEnd
    \/ \E mode \in Modes : ModeClicked(mode)
    \/ ToggleRemoveRow
    \/ ToggleSelectRow
    \/ ToggleAllRemove
    \/ ToggleAllSelect
    \/ SelectClicked
    \/ RemoveClicked
    \/ SaveTab

Spec == Init /\ [][Next]_vars

\* the user works at the canvas only: mouse buttons, motion, mode buttons
InitMouse == horizon = MaxMouseSteps /\ \E g \in InitGraphs : InitWith(Constructed(g))

NextMouse ==
    \/ Realize
    \/ Draw
    \/ \E p \in Points, shift \in BOOLEAN, ctrl \in BOOLEAN : Press1(p, shift, ctrl)
    \/ \E p \in Points : Press3(p)
    \/ \E p \in Points : Release1(p, FALSE)
    \/ \E p \in Points, shift \in BOOLEAN, ctrl \in BOOLEAN : Motion(p, shift, ctrl, FALSE)
    \/ \E mode \in Modes : ModeClicked(mode)

SpecMouse == InitMouse /\ [][NextMouse]_vars

\* the user moves vertices and pans the view, by dragging and by scrolling
InitView == horizon = MaxViewSteps /\ \E g \in InitGraphs : InitWith(Constructed(g))

NextView ==
    \/ Realize
    \/ AddSomeGraphs
    \/ Draw
    \/ \E p \in Points : Press1(p, FALSE, FALSE)
    \/ \E p \in Points : Release1(p, TRUE)
    \/ \E p \in Points : Motion(p, FALSE, FALSE, TRUE)
    \/ \E p \in Points, dy \in Deltas, shift \in BOOLEAN : Scroll(p, dy, shift, TRUE)

SpecView == InitView /\ [][NextView]_vars

\* the user picks vertices and scrolls over them; the graphs have a vertex
\* with three edges: out, in and a self-loop, or two parallel edges and one
\* back
ScrollGraphs ==
    {g \in {Graph(2, << << 0, 0 >>, << Pitch, Pitch >> >>,
                  << Edge(0, 0, 1), Edge(1, 1, 0), Edge(2, 0, 0) >>),
            Graph(2, << << 0, 0 >>, << Pitch, Pitch >> >>,
                  << Edge(0, 0, 1), Edge(1, 0, 1), Edge(2, 1, 0) >>)} :
        g.nv <= MaxV /\ Len(g.edges) <= MaxE}

InitScroll == horizon = MaxScrollSteps /\ \E g \in ScrollGraphs : InitWith(Constructed(g))

NextScroll ==
    \/ Realize
    \/ Draw
    \/ \E p \in Points : Press1(p, FALSE, FALSE)
    \/ \E p \in Points : Release1(p, FALSE)
    \/ \E p \in Points, dy \in Deltas : Scroll(p, dy, FALSE, FALSE)

SpecScroll == InitScroll /\ [][NextScroll]_vars

\* the widget is built with a vertex size (vprops) that makes the hit-discs
\* wider than the distance of two vertices
WideSize == 3 * Pitch

InitHit ==
    /\ horizon = MaxHitSteps
    /\ \E g \in InitGraphs : InitWith([Constructed(g) EXCEPT !.size = Some(WideSize)])

NextHit ==
    \/ Realize
    \/ Draw
    \/ \E p \in Points : Press1(p, FALSE, FALSE)
    \/ \E p \in Points : Release1(p, FALSE)
    \/ \E p \in Points : Motion(p, FALSE, FALSE, FALSE)
    \/ \E mode \in Modes : ModeClicked(mode)

SpecHit == InitHit /\ [][NextHit]_vars

\* the user draws edges and zoom rectangles with the mouse while the touch
\* screen reports zoom gestures
InitEdge == horizon = MaxEdgeSteps /\ \E g \in InitGraphs : InitWith(Constructed(g))

NextEdge ==
    \/ Realize
    \/ Draw
    \/ \E p \in Points, ctrl \in BOOLEAN : Press1(p, FALSE, ctrl)
    \/ \E p \in Points : Release1(p, FALSE)
    \/ ZoomBegin
    \/ ZoomEnd
    \/ \E mode \in Modes : ModeClicked(mode)

SpecEdge == InitEdge /\ [][NextEdge]_vars

\* the user edits, saves and closes the tab and the window
InitClose ==
    /\ horizon = MaxCloseSteps
    /\ \E g \in InitGraphs, f \in FileChoices :
           InitWith([Constructed(g) EXCEPT !.file_name = f])

NextClose ==
    \/ in_notebook /\ window_open /\ AddSomeGraphs
    \/ in_notebook /\ window_open /\ Realize
    \/ in_notebook /\ window_open /\ Draw
    \/ in_notebook /\ window_open /\ (\E mode \in Modes : ModeClicked(mode))
    \/ in_notebook /\ window_open /\ (\E p \in Points : Press1(p, FALSE, FALSE))
    \/ in_notebook /\ window_open /\ (\E p \in Points : Release1(p, FALSE))
    \/ \E chosen \in FileChoices : SaveCurrentTab(chosen)
    \/ \E chosen \in FileChoices : SaveAsCurrentTab(chosen)
    \/ \E answer \in Answers, chosen \in FileChoices : CloseTab(answer, chosen)
    \/ \E answer \in Answers, chosen \in FileChoices : DeleteEvent(answer, chosen)

SpecClose == InitClose /\ [][NextClose]_vars

\* the user picks vertices, scrolls to their edges and draws rubber bands
InitBand == horizon = MaxBandSteps /\ \E g \in InitGraphs : InitWith(Constructed(g))

NextBand ==
    \/ Realize
    \/ Draw
    \/ \E p \in Points, shift \in BOOLEAN : Press1(p, shift, FALSE)
    \/ \E p \in Points : Release1(p, FALSE)
    \/ \E p \in Points, dy \in Deltas : Scroll(p, dy, FALSE, FALSE)

SpecBand == InitBand /\ [][NextBand]_vars

\* the user picks a vertex, scrolls to an edge of it and removes what the
\* selected list has ticked
InitRemove == horizon = MaxRemoveSteps /\ \E g \in InitGraphs : InitWith(Constructed(g))

NextRemove ==
    \/ Realize
    \/ Draw
    \/ \E p \in Points : Press1(p, FALSE, FALSE)
    \/ \E p \in Points : Release1(p, FALSE)
    \/ \E p \in Points, dy \in Deltas : Scroll(p, dy, FALSE, FALSE)
    \/ ToggleRemoveRow
    \/ RemoveClicked

SpecRemove == InitRemove /\ [][NextRemove]_vars

\* the user pans the view while the cache surface is painted in time-boxed
\* passes
EnvTimed(b) == [Env(0, "lo", FALSE) EXCEPT !.budget = b]
TimedEnvs == {EnvTimed(b) : b \in 1..MaxBudget}

DrawTimed(env) ==
    /\ realized
    /\ Apply(draw(Begin("draw"), env))

InitCache == horizon = MaxCacheSteps /\ \E g \in InitGraphs : InitWith(Constructed(g))

NextCache ==
    \/ Realize
    \/ \E env \in TimedEnvs : DrawTimed(env)
    \/ \E p \in Points : Press1(p, FALSE, FALSE)
    \/ \E p \in Points : Release1(p, TRUE)
    \/ \E p \in Points : Motion(p, FALSE, FALSE, TRUE)
    \/ \E p \in Points, dy \in Deltas : Scroll(p, dy, TRUE, TRUE)

SpecCache == InitCache /\ [][NextCache]_vars

\* a draw that ends with regenerate_offset > 0 calls queue_draw: GTK runs the
\* draw it has been asked for
QueuedDraw == \E env \in TimedEnvs : regenerate_offset > 0 /\ DrawTimed(env)

InitRedraw ==
    /\ horizon = MaxRedrawSteps
    /\ \E g \in InitGraphs \cup ScrollGraphs : InitWith(Constructed(g))

NextRedraw ==
    \/ Realize
    \/ \E env \in TimedEnvs : DrawTimed(env)
    \/ \E p \in Points, dy \in Deltas : Scroll(p, dy, TRUE, TRUE)

SpecRedraw == InitRedraw /\ [][NextRedraw]_vars /\ WF_vars(QueuedDraw)

\* the user zooms with the wheel and with zoom rectangles, pans and places
\* vertices while the cache surface is painted in time-boxed passes
Zooms == 2..MaxZoom

\* the zoom leaves the point under the pointer on the integer grid
ZoomOnGrid(d, zoom) ==
    pos_to_device(zoom_scaled(Cur, zoom), pos_from_device(zoom_scaled(Cur, zoom), d)) = d

ScrollZoom(p, zoom) ==
    /\ Ready /\ InWindow(pos_to_device(Cur, p))
    /\ ZoomOnGrid(pos_to_device(Cur, p), zoom)
    /\ CommitView(scroll_zoom_event(Begin("scroll_event(ctrl)"), pos_to_device(Cur, p), zoom),
                  TRUE)

InitZoom == horizon = MaxZoomSteps /\ \E g \in InitGraphs : InitWith(Constructed(g))

NextZoom ==
    \/ Realize
    \/ \E env \in TimedEnvs : DrawTimed(env)
    \/ \E p \in Points, ctrl \in BOOLEAN : Press1(p, FALSE, ctrl)
    \/ \E p \in Points : Release1(p, TRUE)
    \/ \E p \in Points, zoom \in Zooms : ScrollZoom(p, zoom)
    \/ \E mode \in Modes : ModeClicked(mode)

SpecZoom == InitZoom /\ [][NextZoom]_vars

\* the user picks at the canvas and moves the cursor over the rows of the
\* side lists while the widget is drawn
HighlightRow ==
    /\ Ready /\ ~btn1
    /\ \E view \in {selected_view, connected_view} : \E row \in RowsOf(view) :
         Apply(highlight_prepicked_event(Begin("highlight_prepicked_event"), view, row))

HighlightNoRow ==
    /\ Ready /\ ~btn1 /\ prepicked # PickedNone
    /\ Apply(highlight_prepicked_event(Begin("highlight_prepicked_event"), "None", 0))

\* the user drags vertices, draws rubber bands and removes what the selected
\* list has ticked
InitIndex == horizon = MaxIndexSteps /\ \E g \in InitGraphs : InitWith(Constructed(g))

NextIndex ==
    \/ Realize
    \/ Draw
    \/ \E p \in Points, shift \in BOOLEAN : Press1(p, shift, FALSE)
    \/ \E p \in Points : Press3(p)
    \/ \E p \in Points, shift \in BOOLEAN : Motion(p, shift, FALSE, FALSE)
    \/ \E p \in Points : Release1(p, FALSE)
    \/ ToggleAllRemove
    \/ RemoveClicked

SpecIndex == InitIndex /\ [][NextIndex]_vars

\* the user selects some of the vertices of a graph of three and drags them
DragGraphs ==
    {Graph(3, << << 0, 0 >>, << Pitch, 0 >>, << Pitch, Pitch >> >>, << Edge(0, 0, 1) >>)}

InitDrag == horizon = MaxDragSteps /\ \E g \in DragGraphs : InitWith(Constructed(g))

NextDrag ==
    \/ Realize
    \/ Draw
    \/ \E p \in Points, shift \in BOOLEAN : Press1(p, shift, FALSE)
    \/ \E p \in Points : Press3(p)
    \/ \E p \in Points, shift \in BOOLEAN : Motion(p, shift, FALSE, FALSE)
    \/ \E p \in Points : Release1(p, FALSE)

SpecDrag == InitDrag /\ [][NextDrag]_vars

\* the user picks a vertex, scrolls to an edge of it, ticks rows of the side
\* lists and draws rubber bands
InitTick == horizon = MaxTickSteps /\ \E g \in InitGraphs : InitWith(Constructed(g))

NextTick ==
    \/ Realize
    \/ Draw
    \/ \E p \in Points, shift \in BOOLEAN : Press1(p, shift, FALSE)
    \/ \E p \in Points : Release1(p, FALSE)
    \/ \E p \in Points, dy \in Deltas : Scroll(p, dy, FALSE, FALSE)
    \/ ToggleRemoveRow
    \/ ToggleSelectRow

SpecTick == InitTick /\ [][NextTick]_vars

InitFrame == horizon = MaxFrameSteps /\ \E g \in InitGraphs : InitWith(Constructed(g))

NextFrame ==
    \/ Realize
    \/ \E env \in TimedEnvs : DrawTimed(env)
    \/ \E p \in Points, shift \in BOOLEAN : Press1(p, shift, FALSE)
    \/ \E p \in Points : Release1(p, FALSE)
    \/ \E p \in Points, dy \in Deltas : Scroll(p, dy, FALSE, FALSE)
    \/ ToggleRemoveRow
    \/ HighlightRow
    \/ HighlightNoRow

SpecFrame == InitFrame /\ [][NextFrame]_vars

\* merge_parallel_edges is run on graphs with labelled edges
MergeParallelEdges ==
    /\ steps < horizon
    /\ \E tie \in Ties :
         Apply(merge_parallel_edges(Begin("merge_parallel_edges"), Env(0, tie, FALSE)))

Ends == {<< 0, 0 >>, << 0, 1 >>, << 1, 0 >>, << 1, 1 >>}
Labels == {<< >>, << "a" >>, << "b" >>}
EdgesOf(ends) == [i \in DOMAIN ends |-> Edge(i - 1, ends[i][1], ends[i][2])]
MergeGraphs ==
    {Graph(2, << << 0, 0 >>, << Pitch, Pitch >> >>, EdgesOf(ends)) :
        ends \in UNION {[1..n -> Ends] : n \in 0..MaxMergeE}}

InitMerge ==
    /\ horizon = MaxMergeSteps
    /\ \E g \in MergeGraphs, t \in UNION {[0..(n - 1) -> Labels] : n \in 0..MaxMergeE} :
         /\ DOMAIN t = 0..(Len(g.edges) - 1)
         /\ InitWith([Constructed(g) EXCEPT !.text = Some(t)])

NextMerge == MergeParallelEdges

SpecMerge == InitMerge /\ [][NextMerge]_vars

(***************************************************************************)
(* Properties.                                                             *)
(***************************************************************************)
\* the marked edges of the graph, and the edges with an endpoint, or with
\* both endpoints, among the marked vertices
MarkedEdges == selected_edges \cap EdgeIds(Cur)
IncidentEdges ==
    {e.id : e \in {x \in EdgeSet(Cur) : x.src \in selected_vertices
                                         \/ x.tgt \in selected_vertices}}
InducedEdges ==
    {e.id : e \in {x \in EdgeSet(Cur) : x.src \in selected_vertices
                                         /\ x.tgt \in selected_vertices}}
PickProcessed == "picked-changed" \in SeqToSet(sig)
IncidentMarked == IsVertexTyped(picked) => MarkedEdges = IncidentEdges

PreselectedVertices ==
    IF IsNone(preselected_vertices) THEN {} ELSE Val(preselected_vertices) \cap Vertices(Cur)
PreselectedEdges ==
    IF IsNone(preselected_edges) THEN {} ELSE Val(preselected_edges) \cap EdgeIds(Cur)

C3_NoneWhenEmpty ==
    /\ ~IsNone(preselected_vertices) => PreselectedVertices # {}
    /\ ~IsNone(preselected_edges) => PreselectedEdges # {}

\* a move of vertices that were in the graph before the press is in progress
MovingOld == ~IsNone(is_moving) /\ ~Val(is_moving).is_new
AfterPressOrMotion == last \in {"button_press_event(1)", "motion_notify_event"}

\* C4: button 3 pressed during a move that began in select mode puts every
\* moved vertex back where it was when button 1 went down
C4_CancelRestores ==
    [][(/\ MovingOld /\ edit_mode = "select" /\ AfterPressOrMotion
        /\ last' = "button_press_event(3)")
       => \A v \in MovingVertices(Cur) :
            v \in Vertices(Cur') /\ pos'[v] = Val(is_moving).saved_pos[v]]_vars

\* the vertex just placed is being dragged
MovingNew == ~IsNone(is_moving) /\ Val(is_moving).is_new

\* C5: button 3 pressed while a newly placed vertex is dragged removes that
\* vertex and nothing else, and the handler completes with no move left
C5_CancelRemovesNew ==
    [][(/\ MovingNew /\ edit_mode = "place_node" /\ AfterPressOrMotion
        /\ last' = "button_press_event(3)")
       => /\ ~exc'
          /\ IsNone(is_moving')
          /\ nv' = nv - 1
          /\ \A v \in Vertices(Cur') : pos'[v] = pos[v]]_vars

\* the press is not swallowed by the guards at the head of the handler
PressTaken ==
    /\ ~GestureActive(Cur)
    /\ nv > 0 \/ edit_mode = "place_node"
SelectionKept ==
    /\ picked' = picked
    /\ selected_vertices' = selected_vertices
    /\ preselected_vertices' = preselected_vertices

\* C6: a button-3 press applies the first applicable cancel case only: the
\* undo of a move, else the rubber band, else the zoom rectangle, else the
\* new-edge preview, else the selection; what the later cases would drop
\* stays as it is
C6_OneCancelCase ==
    [][(PressTaken /\ last' = "button_press_event(3)")
       => IF ~IsNone(is_moving)
          THEN srect' = srect /\ zrect' = zrect /\ new_edge' = new_edge
          ELSE IF ~IsNone(srect)
          THEN srect' = None /\ zrect' = zrect /\ new_edge' = new_edge /\ SelectionKept
          ELSE IF ~IsNone(zrect)
          THEN zrect' = None /\ new_edge' = new_edge /\ SelectionKept
          ELSE IF ~IsNone(new_edge)
          THEN new_edge' = None /\ SelectionKept
          ELSE picked' = PickedNone /\ selected_vertices' = {}]_vars

\* the button-1 interaction states that are active
ActiveInteractions ==
    {k \in {"srect", "zrect", "new_edge", "is_moving", "is_panning"} :
        \/ k = "srect" /\ ~IsNone(srect)
        \/ k = "zrect" /\ ~IsNone(zrect)
        \/ k = "new_edge" /\ ~IsNone(new_edge)
        \/ k = "is_moving" /\ ~IsNone(is_moving)
        \/ k = "is_panning" /\ is_panning}

\* C7: rubber band, zoom rectangle, new edge, move and pan exclude each
\* other: at most one of them is active
C7_OneInteraction == Cardinality(ActiveInteractions) <= 1

\* the events of the mouse: buttons, motion, scroll wheel
MouseEvents ==
    {"button_press_event(1)", "button_press_event(3)", "button_release_event(1)",
     "motion_notify_event", "scroll_event"}
InteractionKept == UNCHANGED << srect, zrect, new_edge, is_moving, is_panning >>
SelectionAndGraphKept ==
    UNCHANGED << picked, selected_vertices, selected_edges, preselected_vertices,
                 preselected_edges, nv, edges, pos >>
TransformsKept == UNCHANGED << tmatrix, smatrix, scale >>

\* C8: while a touch gesture is active no mouse interaction is active, a
\* mouse or scroll event changes neither the interaction state nor the
\* selection, the graph or the transforms, and a release of button 1 leaves
\* no interaction state set
C8_GestureExcludesMouse ==
    [][/\ GestureActive(Cur') => ActiveInteractions' = {}
       /\ (GestureActive(Cur) /\ last' \in MouseEvents)
          => InteractionKept /\ SelectionAndGraphKept /\ TransformsKept
       /\ (GestureActive(Cur) /\ last' = "button_release_event(1)")
          => ActiveInteractions' = {}]_vars

\* the last event called regenerate_surface(reset=True, complete=True) on a
\* widget with a window: graph-changed(True) was emitted and a new cache
\* surface was made
FullyRegenerated == "graph-changed(True)" \in SeqToSet(sig) /\ resets > 0

\* C9, as the code has it: after regenerate_surface(reset=True,
\* complete=True) the cache surface covers the viewport, and the next draw
\* makes no new cache surface; it leaves T and S alone if the widget was
\* drawn before (the first draw fits the graph to the window)
C9_CacheCoversAfterRegenerate ==
    [][/\ FullyRegenerated' => ~(CacheMisses(Cur))'
       /\ (FullyRegenerated /\ last' = "draw")
          => /\ resets' = 0
             /\ ~IsNone(geometry) => UNCHANGED << tmatrix, smatrix >>]_vars

\* C9 is met: the graph changed while the view was panned away from its
\* first fit, on a widget drawn before
C9_Witness ==
    /\ FullyRegenerated
    /\ ~IsNone(geometry)
    /\ Multiply(tmatrix, smatrix) # IdentityMatrix

\* C9 as stated: the next draw after regenerate_surface(reset=True,
\* complete=True) makes no new cache surface and changes neither T nor S
C9_NextDrawChangesNothing ==
    [][(FullyRegenerated /\ last' = "draw")
       => resets' = 0 /\ UNCHANGED << tmatrix, smatrix >>]_vars

\* the results the library calls of a scroll can give
ScrollEnvs == {Env(lay, tie, FALSE) : lay \in Lays, tie \in Ties}

\* k forward scroll events (no modifier) with the pointer on vertex v
ForwardScroll(s, v, env) ==
    scroll_event(BeginOn(s, "scroll_event"), pos_to_device(s, s.pos[v]), 1, FALSE, env)
RECURSIVE ForwardScrolls(_, _, _, _)
ForwardScrolls(s, v, k, env) ==
    IF k = 0 THEN s ELSE ForwardScrolls(ForwardScroll(s, v, env), v, k - 1, env)

\* vertex v is picked, no edge is, v has three incident edges and is the
\* vertex under a pointer placed on it
ScrollStart(v, env) ==
    /\ realized /\ ~IsNone(geometry)
    /\ picked = PickedVertex(v)
    /\ Len(HitEdgePool(Cur, v)) = 3
    /\ is_hit_result(is_hit_state(Cur, env), pos[v], env) = Some(v)

\* C10, as the code has it: from a picked vertex with incident edges
\* [e0, e1, e2], three forward scrolls over it leave e2 picked (the first
\* scroll picks e0) and a fourth comes back to e0
C10_ThreeScrollsReachLast ==
    \A v \in Vertices(Cur), env \in ScrollEnvs :
        ScrollStart(v, env)
        => /\ ForwardScrolls(Cur, v, 3, env).picked = PickedEdge(HitEdgePool(Cur, v)[3])
           /\ ForwardScrolls(Cur, v, 4, env).picked = PickedEdge(HitEdgePool(Cur, v)[1])

\* C10 is met: a vertex was picked and the third scroll over it has picked
\* the last of its three edges
C10_Witness ==
    /\ last = "scroll_event" /\ steps = 5
    /\ picked.t = "Edge"
    /\ \E v \in Vertices(Cur) :
         /\ pointer = pos_to_device(Cur, pos[v])
         /\ Len(HitEdgePool(Cur, v)) = 3
         /\ picked.e = HitEdgePool(Cur, v)[3]

\* C10 as stated: three forward scrolls leave e0 picked
C10_ThreeScrollsReachFirst ==
    \A v \in Vertices(Cur), env \in ScrollEnvs :
        ScrollStart(v, env)
        => ForwardScrolls(Cur, v, 3, env).picked = PickedEdge(HitEdgePool(Cur, v)[1])

\* merge_parallel_edges has run
Merged == last = "merge_parallel_edges"

\* C11: a run of merge_parallel_edges right after another removes no edge
\* and changes no label
C11_SecondMergeChangesNothing ==
    [][Merged => (nv' = nv /\ edges' = edges /\ efree' = efree /\ text' = text)]_vars

\* C11 is met: a first run has removed an edge and joined two labels, and a
\* second run has followed
C11_Witness ==
    /\ Merged /\ steps = 2
    /\ efree # << >>
    /\ \E i \in DOMAIN edges : Len(Val(text)[edges[i].id]) > 1

\* the hit-test at p, as a handler makes it, answers h on the state s
HitAnswer(s, p, h) ==
    /\ (\A v \in Vertices(s) : ~InDisc(s, v, p)) => IsNone(h)
    /\ \A v \in Vertices(s) : s.pos[v] = p => (~IsNone(h) /\ s.pos[Val(h)] = p)
    /\ ~IsNone(h) =>
         \A w \in Vertices(s) :
            InDisc(s, w, p) => Dist2(p, s.pos[Val(h)]) <= Dist2(p, s.pos[w])

\* C12: a hit-test at the position of a vertex returns a vertex at that
\* position, a hit-test outside every hit-disc returns none, and the vertex
\* returned is the nearest of those whose hit-disc contains the point
C12_HitNearest ==
    \A p \in Points, env \in ScrollEnvs :
        (realized /\ ~IsNone(geometry))
        => HitAnswer(is_hit_state(Cur, env), p,
                     is_hit_result(is_hit_state(Cur, env), p, env))

\* a press of button 1 with SHIFT has hit a vertex: only that press starts a
\* rubber band, and it emits picked-changed only when it hits
ShiftHit ==
    /\ last' = "button_press_event(1)" /\ ~exc'
    /\ IsNone(srect) /\ ~IsNone(srect')
    /\ "picked-changed" \in SeqToSet(sig')

\* the vertex selection the toggle starts from
ToggleBase == IF IsEdgeTyped(picked) THEN {} ELSE selected_vertices

\* picked as it follows from the vertex selection sel
PickedFor(sel) ==
    IF Cardinality(sel) >= 2 THEN PickedSelectedVertices
    ELSE IF sel = {} THEN PickedNone
    ELSE PickedVertex(CHOOSE v \in sel : TRUE)

\* C13: a shift+button-1 press that hits vertex v flips the membership of v
\* in the vertex selection and of no other vertex (the selection is emptied
\* first when the pick was edge-typed); picked is then the selection map for
\* two or more selected vertices, the vertex for one, None for none
C13_ShiftTogglesOne ==
    [][ShiftHit =>
         /\ \E v \in 0..(nv' - 1) :
              /\ pos'[v] = pos_from_device(Cur', pointer')
              /\ selected_vertices' = (ToggleBase \ {v}) \cup ({v} \ ToggleBase)
         /\ picked' = PickedFor(selected_vertices')]_vars

\* C13 is met: a shift-press on the only selected vertex has taken it out of
\* the selection and left nothing picked
C13_Witness ==
    /\ last = "button_press_event(1)" /\ ~exc
    /\ ~IsNone(srect) /\ "picked-changed" \in SeqToSet(sig)
    /\ picked = PickedNone /\ selected_vertices = {}
    /\ \E v \in Vertices(Cur) : pos[v] = pos_from_device(Cur, pointer)

\* a plain press of button 1 with the pointer at p, and the release that
\* follows it with the pointer still at p
PlainPress(s, p, env) ==
    button_press_event(BeginOn(s, "button_press_event(1)"), pos_to_device(s, p),
                       1, FALSE, FALSE, env)
ReleaseAfter(s, env) ==
    button_release_event(BeginOn(s, "button_release_event(1)"), s.pointer, 1, env)

\* the press has added one vertex, at the pointer, and moved no other
OneVertexAdded(s, p) ==
    /\ s.nv = nv + 1
    /\ s.pos[nv] = p /\ pos_from_device(s, s.pointer) = p
    /\ \A v \in Vertices(Cur) : s.pos[v] = pos[v]
    /\ s.edges = edges

\* the release has changed neither the vertices nor their positions
VerticesKept(s, r) == r.nv = s.nv /\ r.pos = s.pos

\* the widget is drawn and in place-node mode
PlaceMode == realized /\ ~IsNone(geometry) /\ edit_mode = "place_node"

ReleaseAt(s, q, env) ==
    button_release_event(BeginOn(s, "button_release_event(1)"), pos_to_device(s, q),
                         1, env)

\* the release r of a preview begun in s has added the edge from the source
\* of the preview to the vertex h under the pointer, if there is one, and
\* has cleared the preview; nothing else is added or removed
EdgeCommitted(s, r, h) ==
    /\ IsNone(r.new_edge)
    /\ r.nv = s.nv
    /\ IsNone(h) => r.edges = s.edges
    /\ ~IsNone(h) =>
         /\ Len(r.edges) = Len(s.edges) + 1
         /\ SubSeq(r.edges, 1, Len(s.edges)) = s.edges
         /\ r.edges[Len(r.edges)].src = Val(s.new_edge)[1]
         /\ r.edges[Len(r.edges)].tgt = Val(h)

\* the widget is drawn, in place-edge mode, shows no preview, and button 1
\* is up
EdgeMode ==
    /\ realized /\ ~IsNone(geometry) /\ ~btn1
    /\ edit_mode = "place_edge" /\ IsNone(new_edge)

\* C15: in place-edge mode, after a plain button-1 press on a vertex, the
\* release over a vertex adds exactly one edge from the pressed vertex to it,
\* the release over empty space adds none, and either clears the preview and
\* adds or removes nothing else
C15_ReleaseCommitsEdge ==
    \A p \in Points, q \in Points, env \in ScrollEnvs :
        (EdgeMode /\ ~IsNone(PlainPress(Cur, p, env).new_edge))
        => EdgeCommitted(PlainPress(Cur, p, env),
                         ReleaseAt(PlainPress(Cur, p, env), q, env),
                         is_hit_result(is_hit_state(PlainPress(Cur, p, env), env), q, env))

\* the step changes picked or the marks of the selected vertices or edges
SelectionChanges ==
    \/ picked' # picked
    \/ selected_vertices' # selected_vertices
    \/ selected_edges' # selected_edges

\* C16: every handler that changes picked, or which vertices or edges are
\* marked selected, emits picked-changed
C16_ChangeEmitsPicked ==
    [][SelectionChanges => "picked-changed" \in SeqToSet(sig')]_vars

\* how often the last handler emitted a signal
Emitted(name) == Cardinality({i \in DOMAIN sig : sig[i] = name})

\* C17: a handler emits picked-changed at most once and graph-changed at
\* most once
C17_EmitsAtMostOnce ==
    /\ Emitted("picked-changed") <= 1
    /\ Emitted("graph-changed(True)") + Emitted("graph-changed(False)") <= 1

\* the step changed the vertex count, an edge or a vertex position
GraphMutates == nv' # nv \/ edges' # edges \/ pos' # pos

\* the handlers that place, commit, complete, remove, cancel or merge
MutatingHandlers ==
    {"button_press_event(1)", "button_press_event(3)", "button_release_event(1)",
     "remove_event", "merge_parallel_edges"}

\* C18: a step that changes the topology or a vertex position emits
\* graph-changed(True), and is_changed() answers true after it
C18_MutationMarksChanged ==
    [][(GraphMutates /\ last' \in MutatingHandlers)
          => (changed' /\ "graph-changed(True)" \in SeqToSet(sig'))]_vars

\* the preselection of the kind the connected list shows
ConnectedPre(s) ==
    IF s.connected_view = "v" THEN s.preselected_vertices
    ELSE IF s.connected_view = "e" THEN s.preselected_edges
    ELSE None

\* the preselection of the other kind, and the selection of the other kind
OtherPre(s, view) == IF view = "v" THEN s.preselected_edges ELSE s.preselected_vertices
OtherSelected(s, view) == IF view = "v" THEN s.selected_edges ELSE s.selected_vertices
OtherLive(s, view) == IF view = "v" THEN EdgeIds(s) ELSE Vertices(s)

\* the select button can be clicked and the connected kind is preselected
Confirmable ==
    /\ realized /\ ~btn1
    /\ ~IsNone(ConnectedPre(Cur)) /\ Val(ConnectedPre(Cur)) # {}

\* the state select_event leaves
Confirmed == select_event(BeginOn(Cur, "select_event"))

\* picked is a set of the connected kind holding the former preselection, and
\* the selection of that kind is that set
PickedIsFormer(r) ==
    IF connected_view = "v"
    THEN /\ r.picked = PickedVMap(Val(preselected_vertices))
         /\ r.selected_vertices = Val(preselected_vertices)
         /\ IsNone(r.preselected_vertices)
    ELSE /\ r.picked = PickedEMap(Val(preselected_edges))
         /\ r.selected_edges = Val(preselected_edges)
         /\ IsNone(r.preselected_edges)

\* the preselection of the other kind stays, cut down to the elements the
\* new selection holds
OtherCutDown(r) ==
    /\ IsNone(OtherPre(r, connected_view)) <=> IsNone(OtherPre(Cur, connected_view))
    /\ ~IsNone(OtherPre(r, connected_view)) =>
         Val(OtherPre(r, connected_view)) \cap OtherLive(r, connected_view)
           = Val(OtherPre(Cur, connected_view)) \cap OtherSelected(r, connected_view)
               \cap OtherLive(r, connected_view)

\* C19, as the code has it: confirming a non-empty preselection of the
\* connected kind makes picked a set of that kind holding exactly the former
\* preselection, makes the selection of that kind that set and clears the
\* preselection of that kind; the preselection of the other kind is not
\* cleared but cut down to the new selection
C19_ConfirmClearsConnected ==
    Confirmable => (PickedIsFormer(Confirmed) /\ OtherCutDown(Confirmed))

\* C19 is met: select_event has turned a preselection into the picked set
C19_Witness ==
    /\ last = "select_event"
    /\ picked.t \in {"VMap", "EMap"} /\ picked.m # {}
    /\ sig = << "picked-changed" >>

\* C19, as the specification has it: after the confirmation both
\* preselections are None
C19_ConfirmClearsBoth ==
    Confirmable =>
        /\ PickedIsFormer(Confirmed)
        /\ IsNone(Confirmed.preselected_vertices)
        /\ IsNone(Confirmed.preselected_edges)

\* the elements of the connected kind the graph holds
ConnectedLive(s) ==
    IF s.connected_view = "v" THEN Vertices(s)
    ELSE IF s.connected_view = "e" THEN EdgeIds(s)
    ELSE {}

\* the select button can be clicked and no element of the connected kind is
\* preselected: no list is shown, or the kind's preselection is None or
\* marks no element
NothingToConfirm ==
    /\ realized /\ ~btn1
    /\ \/ IsNone(ConnectedPre(Cur))
       \/ Val(ConnectedPre(Cur)) \cap ConnectedLive(Cur) = {}

\* select_event has left the selection state alone and emitted nothing
Untouched(r) ==
    /\ r.picked = picked
    /\ r.selected_vertices = selected_vertices
    /\ r.selected_edges = selected_edges
    /\ r.preselected_vertices = preselected_vertices
    /\ r.preselected_edges = preselected_edges
    /\ r.sig = << >>

\* C20: confirming when nothing of the connected kind is preselected changes
\* none of picked, the selections and the preselections and emits no signal
C20_NothingToConfirmIsNoOp == NothingToConfirm => Untouched(Confirmed)

\* picked names an element the graph holds, or sets of such elements
PickedExists ==
    /\ picked.t = "Vertex" => picked.v \in Vertices(Cur)
    /\ picked.t = "Edge" => picked.e \in EdgeSet(Cur)
    /\ picked.t = "VMap" => picked.m \subseteq Vertices(Cur)
    /\ picked.t = "EMap" => picked.m \subseteq EdgeIds(Cur)

\* the marks of an optional map lie on elements of the graph
MarksIn(o, live) == IsNone(o) \/ Val(o) \subseteq live

\* C21: after remove_event no selection entry refers to a removed element:
\* picked is an element of the graph, and the selections and preselections
\* mark only elements of the graph
C21_RemovedNotSelected ==
    (last = "remove_event" /\ ~exc) =>
        /\ PickedExists
        /\ selected_vertices \subseteq Vertices(Cur)
        /\ selected_edges \subseteq EdgeIds(Cur)
        /\ MarksIn(preselected_vertices, Vertices(Cur))
        /\ MarksIn(preselected_edges, EdgeIds(Cur))

\* C22: while picked is an edge or an edge set, selected_vertices is the set
\* of the endpoints of the edges of the graph marked in selected_edges
C22_EdgePickClosesVertices ==
    IsEdgeTyped(picked) => selected_vertices = EndpointsOfSelected(Cur)

\* C23: a handler that runs on the empty graph, or that empties the graph,
\* returns without an error
C23_EmptyGraphNeverFails ==
    [][(nv = 0 \/ nv' = 0) => ~exc']_vars

\* C24: on a graph of one vertex every handler that leaves it one vertex
\* returns without an error, and the spatial index stays None
C24_SingletonNeverFails ==
    [][(nv = 1 /\ nv' = 1) => (~exc' /\ IsNone(vertex_matrix'))]_vars

\* the state init_vertex_matrix leaves when it is run now, sfdp_layout
\* answering with layout lay
Indexed(lay) == init_vertex_matrix(Cur, Env(lay, "lo", FALSE))

\* all vertices share coordinate c; all vertices share their position
SameCoord(c) == \A v, w \in Vertices(Cur) : pos[v][c] = pos[w][c]
AllSame == SameCoord(1) /\ SameCoord(2)

\* C25, as the code has it: on a graph of two or more vertices
\* init_vertex_matrix replaces the positions by a fresh layout exactly when
\* the vertices share their x or share their y (the bounding box has a zero
\* width or height), and leaves the positions alone otherwise
C25_RelayoutOnZeroExtent ==
    \A lay \in Lays :
        nv >= 2 =>
            /\ (SameCoord(1) \/ SameCoord(2)) => Indexed(lay).pos = Layout(nv, lay)
            /\ ~(SameCoord(1) \/ SameCoord(2)) => Indexed(lay).pos = pos
            /\ ~IsNone(Indexed(lay).vertex_matrix)

\* C25 is met: two vertices at different points of one grid line have no
\* index yet, and building it moves them
C25_Witness ==
    /\ nv = 2 /\ IsNone(vertex_matrix)
    /\ ~AllSame /\ (SameCoord(1) \/ SameCoord(2))
    /\ \E lay \in Lays : Indexed(lay).pos # pos

\* C25, as the specification has it: the positions are replaced exactly when
\* all of them are identical
C25_RelayoutOnIdentical ==
    \A lay \in Lays :
        nv >= 2 =>
            /\ AllSame => Indexed(lay).pos = Layout(nv, lay)
            /\ ~AllSame => Indexed(lay).pos = pos

\* the state a draw leaves when it is run now
Drawn(env) == draw(BeginOn(Cur, "draw"), env)

\* the cache surface is missing or does not cover the viewport, or the
\* deferred-reset flag is set
ResetDue == IsNone(base_geometry) \/ CacheMisses(Cur) \/ lazy_regenerate

\* the three cache actions of a draw: one new surface painted once, one more
\* pass over the old surface, nothing at all
FullReset(r) == r.resets = 1 /\ r.paints = 1
Continued(r) == r.resets = 0 /\ r.paints = 1
CacheKept(r) ==
    /\ r.resets = 0 /\ r.paints = 0
    /\ r.base_geometry = base_geometry /\ r.regenerate_offset = regenerate_offset
    /\ r.tmatrix = tmatrix /\ r.smatrix = smatrix
OneCacheAction(r) ==
    IF ResetDue THEN FullReset(r)
    ELSE IF regenerate_offset > 0 THEN Continued(r)
    ELSE CacheKept(r)

C27_RedrawsFinish == (regenerate_offset > 0) ~> (regenerate_offset = 0)

\* C27 is met: a queued draw has made the last pass over the surface
C27_Witness ==
    /\ last = "draw" /\ resets = 0 /\ paints = 1
    /\ regenerate_offset = 0

\* the step is a zoom: a scroll with CONTROL, or a release of button 1 over
\* a zoom rectangle that the handler does not ignore
WheelZooms == last' = "scroll_event(ctrl)" /\ ~is_zooming /\ ~is_rotating
RectZooms ==
    /\ last' = "button_release_event(1)"
    /\ ~IsNone(zrect) /\ nv > 0 /\ ~GestureActive(Cur)

Committed(env) == regenerate_surface(BeginOn(Cur, "regenerate_surface"), TRUE, FALSE, env)

\* the mapping from the model to the viewport: T followed by S
ViewOf(s) == Multiply(s.tmatrix, s.smatrix)

\* C29: the reset branch of regenerate_surface folds S into T and leaves the
\* mapping T followed by S as it was, whatever pan S has gathered
C29_CommitKeepsView ==
    \A env \in TimedEnvs :
        realized =>
            /\ ViewOf(Committed(env)) = ViewOf(Cur)
            /\ Committed(env).smatrix = Translation(0 - AllocW, 0 - AllocH)
            /\ Committed(env).resets = 1

\* C29 is met: a draw has made a new surface for a view panned away from the
\* first fit
C29_Witness ==
    /\ last = "draw" /\ resets = 1 /\ steps > 0
    /\ smatrix = Translation(0 - AllocW, 0 - AllocH)
    /\ ViewOf(Cur) # IdentityMatrix

\* the state a draw has left behind
AfterDraw == last = "draw" /\ ~exc
\* the vertices joined by an edge, in either direction, to a vertex of vs
AdjacentTo(vs) ==
    {v \in Vertices(Cur) :
        \E e \in EdgeSet(Cur) : \/ (e.src = v /\ e.tgt \in vs)
                               \/ (e.tgt = v /\ e.src \in vs)}
UnselectedNeighbours == AdjacentTo(selected_vertices) \ selected_vertices
\* the selected vertices of the graph, without the ticked ones when a
\* vertex row is ticked
SelectedNotTicked ==
    Xor(selected_vertices \cap Vertices(Cur),
        IF IsNone(preselected_vertices) THEN {}
        ELSE Val(preselected_vertices) \cap Vertices(Cur))

\* C30 (as the code has it): after a draw with a vertex-typed pick the
\* highlight map is the set of vertices adjacent, in either direction, to a
\* selected vertex and not selected themselves; after a draw with an
\* edge-typed pick it is the set of selected vertices (the endpoints of the
\* selected edges) that are not ticked in the vertex list
C30_HighlightByPickType ==
    AfterDraw =>
        /\ (IsVertexTyped(picked) => highlight = UnselectedNeighbours)
        /\ (IsEdgeTyped(picked) => highlight = SelectedNotTicked)

\* a draw has highlighted the unselected neighbours of a picked vertex
C30_Witness ==
    /\ AfterDraw /\ IsVertexTyped(picked)
    /\ highlight # {} /\ highlight = UnselectedNeighbours

\* C30 (as stated): after every draw with a non-empty pick, of either type,
\* the highlight map is the set of unselected neighbours of the selected
\* vertices
C30_HighlightIsNeighbours ==
    (AfterDraw /\ ~IsNone(picked)) => highlight = UnselectedNeighbours

\* layer a is painted before layer b in the last frame, when both are in it
Below(a, b) ==
    \A i \in DOMAIN frame, j \in DOMAIN frame :
        (frame[i] = a /\ frame[j] = b) => i < j
SelectionLayers ==
    {"connected_edges", "selected_edges", "preselected_edges", "prepicked_edge",
     "prepicked_vertex", "preselected_vertices", "selected_vertices"}
GestureLayers == {"srect", "zrect", "new_edge"}

\* C31: in every frame the cache surface is painted before every overlay,
\* the prepicked element after the selected elements of its kind, the
\* rectangles and the new-edge preview after the selection overlays, and
\* the busy icon last, exactly when the cache is not painted to the end
C31_LayersInOrder ==
    AfterDraw =>
        /\ \A a \in SelectionLayers \cup GestureLayers \cup {"busy"} : Below("base", a)
        /\ Below("selected_edges", "prepicked_edge")
        /\ Below("selected_vertices", "prepicked_vertex")
        /\ \A a \in SelectionLayers, b \in GestureLayers : Below(a, b)
        /\ \A a \in SelectionLayers \cup GestureLayers : Below(a, "busy")
        /\ (regenerate_offset > 0) <=> (frame[Len(frame)] = "busy")

\* C32: whenever there is a spatial index, it holds exactly the vertices of
\* the graph, each filed under the grid cell of its position
C32_IndexMatchesGraph ==
    ~IsNone(vertex_matrix) => Val(vertex_matrix) = VertexMatrix(Cur)

\* C33: picked is None, one vertex, one edge, or a map of vertices or of
\* edges, in every state
PickedKinds == {"None", "Vertex", "Edge", "VMap", "EMap"}
C33_PickedIsOneOfFour == picked.t \in PickedKinds

\* a pointer motion drags a selection of several vertices
DragsSelection ==
    /\ last' = "motion_notify_event" /\ ~IsNone(is_moving) /\ picked.t = "VMap"
    /\ Cardinality(selected_vertices) > 1
Shifted(v, delta) ==
    pos'[v] = << pos[v][1] + delta[1], pos[v][2] + delta[2] >>
Steps ==
    {<< dx * Pitch, dy * Pitch >> : dx \in (0 - MaxCoord)..MaxCoord, dy \in (0 - MaxCoord)..MaxCoord}

\* C34: a pointer motion during the drag of a multi-vertex selection moves
\* every selected vertex by one and the same step (their pairwise
\* differences stay as they were) and moves no unselected vertex
C34_DragMovesSelectionTogether ==
    [][DragsSelection =>
         /\ nv' = nv
         /\ \E delta \in Steps : \A v \in selected_vertices : Shifted(v, delta)
         /\ \A v \in Vertices(Cur) \ selected_vertices : pos'[v] = pos[v]]_vars

\* two of three vertices have been dragged away from where they were
C34_Witness ==
    /\ last = "motion_notify_event" /\ ~IsNone(is_moving) /\ picked.t = "VMap" /\ ~exc
    /\ moved_picked /\ nv = 3 /\ Cardinality(selected_vertices) = 2
    /\ \E v \in selected_vertices : pos[v] # Val(is_moving).saved_pos[v]

\* the wheel is turned over the grid point p: forward (dy > 0) or backward
ScrollEnv == Env(0, "lo", FALSE)
ScrolledAt(s, p, dy) ==
    scroll_event(BeginOn(s, "scroll_event"), pos_to_device(s, p), dy, FALSE, ScrollEnv)
RECURSIVE ScrolledTimes(_, _, _)
ScrolledTimes(s, p, k) ==
    IF k = 0 THEN s ELSE ScrolledTimes(ScrolledAt(s, p, 1), p, k - 1)
\* the vertex under p and its incident edges
HitAt(p) == is_hit_result(is_hit_state(Cur, ScrollEnv), p, ScrollEnv)
PoolAt(p) == HitEdgePool(Cur, Val(HitAt(p)))
\* the picked edge is one of the edges of the vertex under p
PickedInPoolAt(p) ==
    /\ realized /\ ~IsNone(geometry) /\ ~is_zooming /\ ~is_rotating
    /\ picked.t = "Edge" /\ ~IsNone(HitAt(p))
    /\ picked.e \in SeqToSet(PoolAt(p))
NoDuplicates(seq) == \A i \in DOMAIN seq, j \in DOMAIN seq : seq[i] = seq[j] => i = j

C36_PreselectionWithinSelection ==
    /\ ~IsNone(preselected_vertices)
          => (Val(preselected_vertices) \cap Vertices(Cur)) \subseteq selected_vertices
    /\ ~IsNone(preselected_edges)
          => (Val(preselected_edges) \cap EdgeIds(Cur)) \subseteq selected_edges

\* C37: when a handler has left picked at None, nothing is selected and
\* nothing is preselected
C37_NoPickNoSelection ==
    picked.t = "None" =>
        /\ selected_vertices \cap Vertices(Cur) = {}
        /\ selected_edges \cap EdgeIds(Cur) = {}
        /\ IsNone(preselected_vertices) /\ IsNone(preselected_edges)

\* no gesture of button 1 is in progress
Idle ==
    /\ IsNone(srect) /\ IsNone(zrect) /\ IsNone(new_edge) /\ IsNone(is_moving)
    /\ ~is_panning /\ ~moved_picked

\* C38: the widget is idle after every release of button 1
C38_ReleaseReturnsToIdle ==
    last = "button_release_event(1)" => Idle

\* the step leaves the vertices, the edges and every position as they were
GraphKept == nv' = nv /\ edges' = edges /\ pos' = pos

\* C39: an event that leaves the topology and every position unchanged
\* does not raise the changed flag
C39_ChangedOnlyByMutation ==
    [][(GraphKept /\ ~changed) => ~changed']_vars

NoAnswers == {"close_tab_event(no)", "delete_event(no)"}
CancelAnswers == {"close_tab_event(cancel)", "delete_event(cancel)"}

\* C40: a changed tab leaves the notebook only saved or after the answer No;
\* Cancel keeps the tab, and on delete-event the window as well
C40_ClosedOnlySavedOrDeclined ==
    [][/\ (in_notebook /\ ~in_notebook' /\ changed') => last' \in NoAnswers
       /\ last' \in CancelAnswers => in_notebook'
       /\ last' = "delete_event(cancel)" => window_open']_vars

====
